---------------------------- MODULE Spec2Model ----------------------------
(***************************************************************************)
(* A model of the two MCP servers of the repository.                       *)
(*                                                                         *)
(* The Odoo tools of the unified server (src/odoo_mcp_server):             *)
(* normalize_vat, OdooTools.get_contact_info and OdooTools.configure_odoo, *)
(* with the remote res.partner table and the credentials file as state.    *)
(*                                                                         *)
(* The file tools read_file, write_file and delete_file of the unified     *)
(* server and of the standalone one (src/mcp-local-file-system), with the  *)
(* filesystem as state, and the two routers that hand a call's text or     *)
(* exception to the transport; list_directory with its recursive scan; the *)
(* tool catalogs of the two servers and the names their routers dispatch.  *)
(*                                                                         *)
(* Calls made one after the other are single steps (Spec, SpecLookup,      *)
(* SpecFS, SpecList, SpecTools).  SpecRace runs the sync_logic of two      *)
(* calls in worker threads, one statement at a time, as asyncio.to_thread  *)
(* lets them interleave.                                                   *)
(*                                                                         *)
(* A Python str is a sequence of characters; a character is a one-letter   *)
(* TLA+ string, except the non-ASCII letter U+00DF, written "eszett".      *)
(* A Python value that may be a str or False/None is a record              *)
(* [t |-> "str", s |-> chars] or [t |-> "false", s |-> <<>>]; an int and a *)
(* list are [t |-> "int", n |-> number] and [t |-> "list", items |-> seq], *)
(* both with s |-> <<>>.                                                   *)
(***************************************************************************)
EXTENDS Integers, Sequences, FiniteSets, TLC

VARIABLES
    nv_in,                  \* normalize_vat: the argument
    nv_out,                 \* normalize_vat(nv_in)
    nv_twice,               \* normalize_vat(normalize_vat(nv_in))
    nv_pc,                  \* "in" -> "once" -> "twice"
    prompt,                 \* args["prompt"] of get_contact_info
    partners,               \* the remote res.partner table, in id order
    config_file,            \* odoo_config.json: NoConfig or the credentials
    connector,              \* OdooTools.connector: NoConnector or [creds, uid]
    op,                     \* the last tool call
    args,                   \* its arguments, a record of the keys given
    outcome,                \* "text": it returned a text block; "raised":
                            \* an exception left the handler
    exc,                    \* the message of that exception, or ""
    result,                 \* the text it returned, as a sequence of pieces
    auths,                  \* the credentials it sent to common.authenticate
    vat_match,              \* get_contact_info's locals at its return
    normalized_vat_prompt,
    fields_to_query,
    queries,                \* the search_read calls it sent: <<[term, fields]>>
    candidates,
    exact_partners,         \* found_partners after the exact filter
    found_partners,         \* found_partners after the disambiguation
    server,                 \* "unified" or "standalone": which server runs
    fs,                     \* the filesystem: path -> node
    prev,                   \* the tool call before the last one
    ncalls,                 \* how many file tool calls were made
    threads                 \* the worker threads of asyncio.to_thread: where
                            \* each is in sync_logic, and its locals

nvVars == <<nv_in, nv_out, nv_twice, nv_pc>>
sessionVars == <<config_file, connector>>
callVars == <<op, args, outcome, exc, result, auths, vat_match, normalized_vat_prompt, fields_to_query,
              queries, candidates, exact_partners, found_partners>>
fsVars == <<server, fs, prev, ncalls>>
vars == <<server, fs, prev, ncalls, nv_in, nv_out, nv_twice, nv_pc, prompt, partners, config_file,
          connector, op, args, outcome, exc, result, auths, vat_match,
          normalized_vat_prompt,
          fields_to_query, queries, candidates, exact_partners, found_partners,
          threads>>

----------------------------------------------------------------------------
(* Characters and the str methods the code calls.                          *)

Lowers == <<"a","b","c","d","e","f","g","h","i","j","k","l","m",
            "n","o","p","q","r","s","t","u","v","w","x","y","z">>
Uppers == <<"A","B","C","D","E","F","G","H","I","J","K","L","M",
            "N","O","P","Q","R","S","T","U","V","W","X","Y","Z">>
Digits == {"0","1","2","3","4","5","6","7","8","9"}

LowerSet == {Lowers[i] : i \in DOMAIN Lowers}
UpperSet == {Uppers[i] : i \in DOMAIN Uppers}

IndexIn(c, seq) == CHOOSE i \in DOMAIN seq : seq[i] = c

\* str.upper() of one character: full Unicode case mapping, under which
\* U+00DF upper-cases to the two letters "SS".
char_upper(c) ==
    IF c \in LowerSet THEN <<Uppers[IndexIn(c, Lowers)]>>
    ELSE IF c = "eszett" THEN <<"S", "S">>
    ELSE <<c>>

\* str.lower() of one character (U+00DF is its own lower case).
char_lower(c) ==
    IF c \in UpperSet THEN Lowers[IndexIn(c, Uppers)] ELSE c

RECURSIVE str_upper(_)
str_upper(s) ==
    IF s = <<>> THEN <<>> ELSE char_upper(Head(s)) \o str_upper(Tail(s))

str_lower(s) == [i \in DOMAIN s |-> char_lower(s[i])]

\* needle in hay
Contains(hay, needle) ==
    \E i \in 0..(Len(hay) - Len(needle)) :
        SubSeq(hay, i + 1, i + Len(needle)) = needle

PyFalse == [t |-> "false", s |-> <<>>]
PyStr(s) == [t |-> "str", s |-> s]
PyInt(n) == [t |-> "int", s |-> <<>>, n |-> n]
PyList(items) == [t |-> "list", s |-> <<>>, items |-> items]

\* bool(v)
Truthy(v) ==
    CASE v.t = "str" -> v.s # <<>>
      [] v.t = "int" -> v.n # 0
      [] v.t = "list" -> v.items # <<>>
      [] OTHER -> FALSE

DigitChars == <<"0","1","2","3","4","5","6","7","8","9">>

\* str(n) of a natural number
RECURSIVE Decimal(_)
Decimal(n) ==
    IF n < 10 THEN <<DigitChars[n + 1]>>
    ELSE Decimal(n \div 10) \o <<DigitChars[(n % 10) + 1]>>

----------------------------------------------------------------------------
(* odoo_connector.normalize_vat                                            *)

\* a variant that removes only the first rejected character (count=1)
StripFirstNonAlnum(s) ==
    LET bad == {i \in DOMAIN s : ~(s[i] \in UpperSet \/ s[i] \in Digits)}
    IN  IF bad = {} THEN s
        ELSE LET k == CHOOSE i \in bad : \A j \in bad : i <= j
             IN  SubSeq(s, 1, k - 1) \o SubSeq(s, k + 1, Len(s))

\* re.sub(r'[^A-Z0-9]', '', s)
StripNonAlnum(s) == SelectSeq(s, LAMBDA c : c \in UpperSet \/ c \in Digits)

normalize_vat(vat) ==
    IF ~Truthy(vat) THEN <<>> ELSE StripNonAlnum(str_upper(vat.s))

----------------------------------------------------------------------------
(* Bounded inputs of normalize_vat.                                        *)

MaxVatLen == 3

VatChars == {"u", "U", "s", "1", "-", ".", "eszett"}

RECURSIVE StringsUpTo(_, _)
StringsUpTo(chars, n) ==
    IF n = 0 THEN {<<>>}
    ELSE LET shorter == StringsUpTo(chars, n - 1)
         IN  shorter \cup {<<c>> \o s : c \in chars, s \in {x \in shorter : Len(x) = n - 1}}

VatInputs == {PyFalse} \cup {PyStr(s) : s \in StringsUpTo(VatChars, MaxVatLen)}

----------------------------------------------------------------------------
(* Python's re and str helpers used by get_contact_info.                   *)

MinTokenLen == 7
MaxTokenLen == 15
SearchTermLen == 6

\* \w of a str pattern: letters (non-ASCII ones too), digits, underscore
IsWordChar(c) ==
    c \in LowerSet \/ c \in UpperSet \/ c \in Digits \/ c \in {"_", "eszett"}

\* [A-Z0-9-] under re.IGNORECASE
InTokenClass(c) ==
    c \in LowerSet \/ c \in UpperSet \/ c \in Digits \/ c = "-"

\* \b at offset i of s (between s[i] and s[i+1], 1-based)
WordBoundary(s, i) ==
    LET before == i >= 1 /\ IsWordChar(s[i])
        after  == i < Len(s) /\ IsWordChar(s[i + 1])
    IN  before # after

\* how many characters [A-Z0-9-]{7,15} consumes greedily at offset i
RECURSIVE ClassRun(_, _, _)
ClassRun(s, i, n) ==
    IF n < MaxTokenLen /\ i + n < Len(s) /\ InTokenClass(s[i + n + 1])
    THEN ClassRun(s, i, n + 1)
    ELSE n

\* backtracking of the quantifier until the closing \b matches; 0: no match
RECURSIVE Backtrack(_, _, _)
Backtrack(s, i, n) ==
    IF n < MinTokenLen THEN 0
    ELSE IF WordBoundary(s, i + n) THEN n
    ELSE Backtrack(s, i, n - 1)

MatchLenAt(s, i) ==
    IF WordBoundary(s, i) THEN Backtrack(s, i, ClassRun(s, i, 0)) ELSE 0

NoMatch == [found |-> FALSE, start |-> 0, group |-> <<>>]

RECURSIVE SearchFrom(_, _)
SearchFrom(s, i) ==
    IF i > Len(s) THEN NoMatch
    ELSE LET n == MatchLenAt(s, i)
         IN  IF n > 0
             THEN [found |-> TRUE, start |-> i, group |-> SubSeq(s, i + 1, i + n)]
             ELSE SearchFrom(s, i + 1)

\* a variant that keeps the last match instead of the first
RECURSIVE SearchBack(_, _)
SearchBack(s, i) ==
    IF i < 0 THEN NoMatch
    ELSE LET n == MatchLenAt(s, i)
         IN  IF n > 0
             THEN [found |-> TRUE, start |-> i, group |-> SubSeq(s, i + 1, i + n)]
             ELSE SearchBack(s, i - 1)

re_search_last(s) == SearchBack(s, Len(s))

\* re.search(r'\b([A-Z0-9-]{7,15})\b', s, re.IGNORECASE)
re_search_vat(s) == SearchFrom(s, 0)

\* s[-n:]
LastChars(s, n) == IF Len(s) <= n THEN s ELSE SubSeq(s, Len(s) - n + 1, Len(s))

RECURSIVE SkipSpaces(_)
SkipSpaces(s) ==
    IF s # <<>> /\ Head(s) = " " THEN SkipSpaces(Tail(s)) ELSE s

RECURSIVE TakeWord(_)
TakeWord(s) ==
    IF s = <<>> \/ Head(s) = " " THEN <<>> ELSE <<Head(s)>> \o TakeWord(Tail(s))

\* s.split()[0]: ok is FALSE where Python raises IndexError
FirstWord(s) ==
    LET w == TakeWord(SkipSpaces(s))
    IN  [ok |-> w # <<>>, word |-> w]

\* s.strip()
RECURSIVE RStrip(_)
RStrip(s) ==
    IF s # <<>> /\ s[Len(s)] = " " THEN RStrip(SubSeq(s, 1, Len(s) - 1)) ELSE s

str_strip(s) == RStrip(SkipSpaces(s))

\* s.split(sep) for a one-character sep
RECURSIVE str_split(_, _)
str_split(s, sep) ==
    IF \A i \in DOMAIN s : s[i] # sep THEN <<s>>
    ELSE LET k == CHOOSE i \in DOMAIN s :
                      s[i] = sep /\ \A j \in 1..(i - 1) : s[j] # sep
         IN  <<SubSeq(s, 1, k - 1)>> \o str_split(SubSeq(s, k + 1, Len(s)), sep)

\* sep.join(parts) over sequences of pieces
RECURSIVE JoinWith(_, _)
JoinWith(parts, sep) ==
    IF parts = <<>> THEN <<>>
    ELSE IF Len(parts) = 1 THEN parts[1]
    ELSE parts[1] \o sep \o JoinWith(Tail(parts), sep)

----------------------------------------------------------------------------
(* get_contact_info: field inference.                                      *)

KW_address == <<"a","d","d","r","e","s","s">>
KW_phone == <<"p","h","o","n","e">>
KW_email == <<"e","m","a","i","l">>
KW_job == <<"j","o","b">>
KW_website == <<"w","e","b","s","i","t","e">>

\* field_map, in the order of the dict literal
field_map == <<
    [keyword |-> KW_address, odoo_fields |-> {"contact_address_complete"}],
    [keyword |-> KW_phone,   odoo_fields |-> {"phone", "mobile"}],
    [keyword |-> KW_email,   odoo_fields |-> {"email"}],
    [keyword |-> KW_job,     odoo_fields |-> {"function"}],
    [keyword |-> KW_website, odoo_fields |-> {"website"}] >>

\* ['all', 'full', 'details']
full_words == { <<"a","l","l">>, <<"f","u","l","l">>, <<"d","e","t","a","i","l","s">> }

BaseFields == {"name", "vat"}

AllMappedFields == UNION {field_map[i].odoo_fields : i \in DOMAIN field_map}

\* a variant whose default expansion tests len(fields_to_query) < 2
InferFields_StrictDefault(prompt_lower) ==
    LET byKeyword == UNION {field_map[i].odoo_fields :
                              i \in {j \in DOMAIN field_map :
                                       Contains(prompt_lower, field_map[j].keyword)}}
        byFull == IF \E k \in full_words : Contains(prompt_lower, k)
                  THEN AllMappedFields ELSE {}
        asked == BaseFields \cup byKeyword \cup byFull
    IN  IF Cardinality(asked) < 2 THEN asked \cup AllMappedFields ELSE asked

\* a variant without the 'if len(fields_to_query) <= 2' expansion
InferFields_NoDefault(prompt_lower) ==
    LET byKeyword == UNION {field_map[i].odoo_fields :
                              i \in {j \in DOMAIN field_map :
                                       Contains(prompt_lower, field_map[j].keyword)}}
        byFull == IF \E k \in full_words : Contains(prompt_lower, k)
                  THEN AllMappedFields ELSE {}
    IN  BaseFields \cup byKeyword \cup byFull

\* the field set after the three update loops
InferFields(prompt_lower) ==
    LET byKeyword == UNION {field_map[i].odoo_fields :
                              i \in {j \in DOMAIN field_map :
                                       Contains(prompt_lower, field_map[j].keyword)}}
        byFull == IF \E k \in full_words : Contains(prompt_lower, k)
                  THEN AllMappedFields ELSE {}
        asked == BaseFields \cup byKeyword \cup byFull
    IN  IF Cardinality(asked) <= 2 THEN asked \cup AllMappedFields ELSE asked

----------------------------------------------------------------------------
(* The remote system behind OdooConnector.search_read.                     *)

\* dict.get(f): None (falsy) for an absent key
Get(p, f) == IF f \in DOMAIN p THEN p[f] ELSE PyFalse

\* the domain [['vat', 'ilike', term]]: a case-insensitive substring test on
\* the stored value; an empty term matches every record, unset VAT included
Ilike(stored, term) ==
    \/ term = <<>>
    \/ stored.t = "str" /\ Contains(str_lower(stored.s), str_lower(term))

\* the record as returned: id and the requested fields
Project(p, fields) == [f \in (DOMAIN p \cap fields) \cup {"id"} |-> p[f]]

\* execute_kw(..., 'res.partner', 'search_read', [domain], {'fields': fields})
search_read(table, term, fields) ==
    LET hit(p) == Ilike(p.vat, term)
        matching == SelectSeq(table, hit)
    IN  [i \in DOMAIN matching |-> Project(matching[i], fields)]

----------------------------------------------------------------------------
(* get_contact_info: exact filter, disambiguation, formatting.             *)

\* a variant that keeps every candidate of the partial query
ExactFilter_None(cands, nvp) == cands

\* [p for p in candidates if normalize_vat(p.get('vat')) == normalized_vat_prompt]
ExactFilter(cands, nvp) ==
    LET same(p) == normalize_vat(Get(p, "vat")) = nvp
    IN  SelectSeq(cands, same)

\* whether the loop body's condition holds for partner p; raises reports the
\* IndexError of split()[0] on a name that holds no word
NameTest(p, prompt_lower) ==
    LET name == Get(p, "name")
        fw == FirstWord(str_lower(name.s))
    IN  [raises |-> Truthy(name) /\ ~fw.ok,
         hit |-> Truthy(name) /\ fw.ok /\ Contains(prompt_lower, fw.word)]

\* the enumerate loop from index i on: the list it leaves, or the exception
RECURSIVE ScanNames(_, _, _)
ScanNames(found, prompt_lower, i) ==
    IF i > Len(found) THEN [raised |-> FALSE, list |-> found]
    ELSE LET test == NameTest(found[i], prompt_lower)
         IN  IF test.raises THEN [raised |-> TRUE, list |-> found]
             ELSE IF test.hit THEN [raised |-> FALSE, list |-> <<found[i]>>]
             ELSE ScanNames(found, prompt_lower, i + 1)

Disambiguate(found, prompt_lower) ==
    IF Len(found) > 1 THEN ScanNames(found, prompt_lower, 1)
    ELSE [raised |-> FALSE, list |-> found]

\* the order in which a returned record's fields are visited
FieldOrder == <<"contact_address_complete", "phone", "mobile", "email",
                "function", "website">>

\* field.replace('_', ' ').capitalize() with the two overrides
FieldLabel(f) ==
    CASE f = "function" -> "Job position"
      [] f = "contact_address_complete" -> "Address"
      [] f = "phone" -> "Phone"
      [] f = "mobile" -> "Mobile"
      [] f = "email" -> "Email"
      [] f = "website" -> "Website"

\* str(value), f"{value}" of a str, of an int or of False/None
Shown(v) ==
    CASE v.t = "str" -> v.s
      [] v.t = "int" -> Decimal(v.n)
      [] OTHER -> <<"F","a","l","s","e">>

\* a variant that renders a two-element list by its first element
ValueStr_FirstElement(value) ==
    IF ~Truthy(value) THEN PyStr(<<>>)
    ELSE IF value.t = "list" /\ Len(value.items) = 2 THEN value.items[1]
    ELSE IF value.t # "list" THEN PyStr(Shown(value))
    ELSE PyStr(<<>>)

\* value_str after the 'if value:' block
ValueStr(value) ==
    IF ~Truthy(value) THEN PyStr(<<>>)
    ELSE IF value.t = "list" /\ Len(value.items) = 2 THEN value.items[2]
    ELSE IF value.t # "list" THEN PyStr(Shown(value))
    ELSE PyStr(<<>>)

\* the line of field f of record p, if it gets one
FieldLine(p, f) ==
    LET value_str == ValueStr(Get(p, f))
    IN  IF f \in DOMAIN p /\ Truthy(value_str) /\ value_str # PyStr(<<"F","a","l","s","e">>)
        THEN <<"  - ", FieldLabel(f), ": ">> \o Shown(value_str) \o <<"\n">>
        ELSE <<>>

RECURSIVE FieldLines(_, _)
FieldLines(p, i) ==
    IF i > Len(FieldOrder) THEN <<>>
    ELSE FieldLine(p, FieldOrder[i]) \o FieldLines(p, i + 1)

PartnerInfo(p, nvp) ==
    <<"Information for ">> \o Shown(Get(p, "name")) \o <<" (VAT: ">> \o nvp
        \o <<"):\n">> \o FieldLines(p, 1)

Responses(found, nvp) ==
    JoinWith([i \in DOMAIN found |-> PartnerInfo(found[i], nvp)], <<"\n---\n">>)

\* the text pieces of the fixed messages ("[x]" is the cross mark U+274C,
\* "[v]" the check mark U+2705)
MsgNotConnected == <<"[x] Error: Not connected to Odoo. Use 'configure_odoo' first.">>
MsgNoVat == <<"Could not extract a VAT/Tax ID from the prompt text.">>
MsgNoContact(nvp) == <<"No contact found with the exact VAT '">> \o nvp \o <<"'.">>
MsgQueryError(e) == <<"[x] Error while querying Odoo: ", e>>
MsgBadFormat == <<"[x] Incorrect format. Expected URL|DB|USER|PASSWORD">>
MsgConfigured(uid) ==
    <<"[v] Config saved. Connection status: ">>
        \o (IF uid # 0 THEN <<"OK (UID: ", ToString(uid), ")">> ELSE <<"Failed">>)

----------------------------------------------------------------------------
(* Session state.                                                          *)

NoConfig == [present |-> FALSE]
NoConnector == [present |-> FALSE, uid |-> 0]

\* a uid of 0 stands for the falsy results of authenticate (False, None)
NewConnector(config, uid) == [present |-> TRUE, uid |-> uid, config |-> config]

Connected(c) == c.present /\ c.uid # 0

\* what common.authenticate can answer: a user id, or no session
AuthOutcomes == {0, 7}

NoCall == [op |-> "none", args |-> <<>>, outcome |-> "idle", exc |-> "",
           result |-> <<>>, auths |-> <<>>, vat_match |-> NoMatch,
           normalized_vat_prompt |-> <<>>, fields_to_query |-> {},
           queries |-> <<>>, candidates |-> <<>>, exact_partners |-> <<>>,
           found_partners |-> <<>>]

\* the worker threads that run sync_logic
Threads == {"t1", "t2"}

\* a thread that runs no call: pc is its place in sync_logic, call the record
\* of the call it runs, seen the connector whose uid its check read, used the
\* connector it queried, config the credentials it was given, loaded those it
\* read from the file, made the connector it built
IdleThread ==
    [pc |-> "idle", call |-> NoCall, seen |-> NoConnector, used |-> NoConnector,
     config |-> NoConfig, loaded |-> NoConfig, made |-> NoConnector]

SetCall(c) ==
    /\ op' = c.op
    /\ args' = c.args
    /\ outcome' = c.outcome
    /\ exc' = c.exc
    /\ result' = c.result
    /\ auths' = c.auths
    /\ vat_match' = c.vat_match
    /\ normalized_vat_prompt' = c.normalized_vat_prompt
    /\ fields_to_query' = c.fields_to_query
    /\ queries' = c.queries
    /\ candidates' = c.candidates
    /\ exact_partners' = c.exact_partners
    /\ found_partners' = c.found_partners

----------------------------------------------------------------------------
(* OdooTools.get_contact_info                                              *)

\* a variant without the 'if not found_partners' return
AfterQuery_NoEmptyCheck(call, prompt_lower) ==
    LET nvp == call.normalized_vat_prompt
        cands == search_read(partners, LastChars(nvp, SearchTermLen),
                             call.fields_to_query)
        exact == ExactFilter(cands, nvp)
        chosen == Disambiguate(exact, prompt_lower)
        seen == [call EXCEPT !.candidates = cands, !.exact_partners = exact]
    IN  IF chosen.raised
        THEN [seen EXCEPT !.exc = "list index out of range"]
        ELSE [seen EXCEPT !.found_partners = chosen.list,
                          !.result = Responses(chosen.list, nvp)]

\* the try block from the search_read call on, when the remote call answers;
\* exc is the exception it raises, if any
AfterQuery(call, prompt_lower) ==
    LET nvp == call.normalized_vat_prompt
        cands == search_read(partners, LastChars(nvp, SearchTermLen),
                             call.fields_to_query)
        exact == ExactFilter(cands, nvp)
        chosen == Disambiguate(exact, prompt_lower)
        seen == [call EXCEPT !.candidates = cands, !.exact_partners = exact]
    IN  IF exact = <<>>
        THEN [seen EXCEPT !.result = MsgNoContact(nvp)]
        ELSE IF chosen.raised
        THEN [seen EXCEPT !.exc = "list index out of range"]
        ELSE [seen EXCEPT !.found_partners = chosen.list,
                          !.result = Responses(chosen.list, nvp)]

\* a variant that lets the exception of the try block go
ExceptClause_Reraise(call) == call

\* except Exception as e: return f"... Error while querying Odoo: {e}"
ExceptClause(call) ==
    IF call.exc # ""
    THEN [call EXCEPT !.result = MsgQueryError(call.exc), !.exc = ""]
    ELSE call

\* what the router hands back: the handler's text, or its exception
Handled(call) ==
    [call EXCEPT !.outcome = IF call.exc # "" THEN "raised"
                             ELSE IF @ = "none" THEN "none" ELSE "text"]

\* a variant that looks for the identifier before it checks the session
ContactInfo_ExtractFirst(text, remote_ok) ==
    LET m == re_search_vat(text)
        prompt_lower == str_lower(text)
        nvp == normalize_vat(PyStr(m.group))
        fields == InferFields(prompt_lower)
        started == [NoCall EXCEPT !.op = "get_contact_info", !.args = [prompt |-> text]]
        asked == [started EXCEPT
                     !.vat_match = m,
                     !.normalized_vat_prompt = nvp,
                     !.fields_to_query = fields,
                     !.queries = <<[term |-> LastChars(nvp, SearchTermLen),
                                    fields |-> fields]>>]
    IN  IF ~m.found THEN [started EXCEPT !.result = MsgNoVat]
        ELSE IF ~Connected(connector) THEN [started EXCEPT !.result = MsgNotConnected]
        ELSE IF ~remote_ok
        THEN ExceptClause([asked EXCEPT !.exc = "Odoo API call error"])
        ELSE ExceptClause(AfterQuery(asked, prompt_lower))

\* sync_logic: the call's locals and text, given whether the remote call answers
ContactInfo(text, remote_ok) ==
    LET m == re_search_vat(text)
        prompt_lower == str_lower(text)
        nvp == normalize_vat(PyStr(m.group))
        fields == InferFields(prompt_lower)
        started == [NoCall EXCEPT !.op = "get_contact_info", !.args = [prompt |-> text]]
        asked == [started EXCEPT
                     !.vat_match = m,
                     !.normalized_vat_prompt = nvp,
                     !.fields_to_query = fields,
                     !.queries = <<[term |-> LastChars(nvp, SearchTermLen),
                                    fields |-> fields]>>]
    IN  IF ~Connected(connector) THEN [started EXCEPT !.result = MsgNotConnected]
        ELSE IF ~m.found THEN [started EXCEPT !.result = MsgNoVat]
        ELSE IF ~remote_ok
        THEN ExceptClause([asked EXCEPT !.exc = "Odoo API call error"])
        ELSE ExceptClause(AfterQuery(asked, prompt_lower))

\* a variant that drops the session when the remote call fails
GetContactInfo_Reconnect ==
    /\ \E remote_ok \in BOOLEAN :
           /\ SetCall(Handled(ContactInfo(prompt, remote_ok)))
           /\ connector' = IF remote_ok THEN connector
                           ELSE [connector EXCEPT !.uid = 0]
    /\ UNCHANGED <<prompt, partners, config_file>>
    /\ UNCHANGED <<nvVars, threads>>
    /\ UNCHANGED fsVars

GetContactInfo ==
    /\ \E remote_ok \in BOOLEAN :
           SetCall(Handled(ContactInfo(prompt, remote_ok)))
    /\ UNCHANGED <<prompt, partners, config_file, connector>>
    /\ UNCHANGED <<nvVars, threads>>
    /\ UNCHANGED fsVars

----------------------------------------------------------------------------
(* OdooTools.configure_odoo                                                *)

ConfigOf(parts) ==
    [present |-> TRUE,
     ODOO_URL |-> str_strip(parts[1]), ODOO_DB |-> str_strip(parts[2]),
     ODOO_USERNAME |-> str_strip(parts[3]), ODOO_PASSWORD |-> str_strip(parts[4])]

\* a variant that updates the stored credentials instead of replacing them
ConfigureOdoo_Merge(connection_string) ==
    LET parts == str_split(connection_string, "|")
        started == [NoCall EXCEPT !.op = "configure_odoo",
                                  !.args = [connection_string |->
                                                connection_string]]
        merged == [k \in DOMAIN config_file \cup DOMAIN ConfigOf(parts) |->
                      IF k \in DOMAIN ConfigOf(parts)
                      THEN ConfigOf(parts)[k] ELSE config_file[k]]
    IN  /\ IF Len(parts) # 4
           THEN /\ SetCall(Handled([started EXCEPT !.result = MsgBadFormat]))
                /\ UNCHANGED <<config_file, connector>>
           ELSE \E uid \in AuthOutcomes :
                    /\ config_file' = merged
                    /\ connector' = NewConnector(merged, uid)
                    /\ SetCall(Handled([started EXCEPT
                                            !.auths = <<merged>>,
                                            !.result = MsgConfigured(uid)]))
        /\ UNCHANGED <<prompt, partners>>
        /\ UNCHANGED <<nvVars, threads>>
        /\ UNCHANGED fsVars
    /\ UNCHANGED fsVars

\* a variant whose format test is len(parts) < 4
ConfigureOdoo_AtLeastFour(connection_string) ==
    LET parts == str_split(connection_string, "|")
        started == [NoCall EXCEPT !.op = "configure_odoo",
                                  !.args = [connection_string |->
                                                connection_string]]
    IN  /\ IF Len(parts) < 4
           THEN /\ SetCall(Handled([started EXCEPT !.result = MsgBadFormat]))
                /\ UNCHANGED <<config_file, connector>>
           ELSE \E uid \in AuthOutcomes :
                    /\ config_file' = ConfigOf(parts)
                    /\ connector' = NewConnector(ConfigOf(parts), uid)
                    /\ SetCall(Handled([started EXCEPT
                                            !.auths = <<ConfigOf(parts)>>,
                                            !.result = MsgConfigured(uid)]))
        /\ UNCHANGED <<prompt, partners>>
        /\ UNCHANGED <<nvVars, threads>>
        /\ UNCHANGED fsVars
    /\ UNCHANGED fsVars

\* a variant that keeps the connector it had when authentication fails
ConfigureOdoo_KeepOnFailure(connection_string) ==
    LET parts == str_split(connection_string, "|")
        started == [NoCall EXCEPT !.op = "configure_odoo",
                                  !.args = [connection_string |->
                                                connection_string]]
    IN  /\ IF Len(parts) # 4
           THEN /\ SetCall(Handled([started EXCEPT !.result = MsgBadFormat]))
                /\ UNCHANGED <<config_file, connector>>
           ELSE \E uid \in AuthOutcomes :
                    /\ config_file' = ConfigOf(parts)
                    /\ connector' = IF uid = 0 THEN connector
                                    ELSE NewConnector(ConfigOf(parts), uid)
                    /\ SetCall(Handled([started EXCEPT
                                            !.auths = <<ConfigOf(parts)>>,
                                            !.result = MsgConfigured(uid)]))
        /\ UNCHANGED <<prompt, partners>>
        /\ UNCHANGED <<nvVars, threads>>
        /\ UNCHANGED fsVars

\* save_config rewrites the file; OdooConnector() loads it and authenticates
ConfigureOdoo(connection_string) ==
    LET parts == str_split(connection_string, "|")
        started == [NoCall EXCEPT !.op = "configure_odoo",
                                  !.args = [connection_string |->
                                                connection_string]]
    IN  /\ IF Len(parts) # 4
           THEN /\ SetCall(Handled([started EXCEPT !.result = MsgBadFormat]))
                /\ UNCHANGED <<config_file, connector>>
           ELSE \E uid \in AuthOutcomes :
                    /\ config_file' = ConfigOf(parts)
                    /\ connector' = NewConnector(ConfigOf(parts), uid)
                    /\ SetCall(Handled([started EXCEPT
                                            !.auths = <<ConfigOf(parts)>>,
                                            !.result = MsgConfigured(uid)]))
        /\ UNCHANGED <<prompt, partners>>
        /\ UNCHANGED <<nvVars, threads>>
        /\ UNCHANGED fsVars
    /\ UNCHANGED fsVars

----------------------------------------------------------------------------
(* The two sync_logic functions, statement by statement. asyncio.to_thread *)
(* runs each call on a worker thread, and the server holds no lock: calls  *)
(* in flight interleave between any two reads or writes of self.connector  *)
(* and of the credentials file.                                            *)

MsgReconnectError(e) == <<"[x] Error reconnecting: ", e>>

E_not_authenticated == "Not authenticated in Odoo."
E_json == "Expecting value: line 1 column 1 (char 0)"

\* the credentials file between open(CONFIG_FILE, "w") and the close that
\* writes the buffered text: it exists and is empty
Truncated == [present |-> TRUE, empty |-> TRUE]

\* thread t goes on as new
Step(t, new) == threads' = [threads EXCEPT ![t] = new]

\* a step inside sync_logic returns no call and touches no input
Inside ==
    /\ UNCHANGED callVars
    /\ UNCHANGED <<prompt, partners>>
    /\ UNCHANGED nvVars
    /\ UNCHANGED fsVars

\* get_contact_info: prompt = args["prompt"]
G_Start(t) ==
    /\ threads[t].pc = "idle"
    /\ Step(t, [IdleThread EXCEPT
                   !.pc = "g_check",
                   !.call = [NoCall EXCEPT !.op = "get_contact_info",
                                           !.args = [prompt |-> prompt]]])
    /\ UNCHANGED <<config_file, connector>>
    /\ Inside

\* if not self.connector
G_Check(t) ==
    /\ threads[t].pc = "g_check"
    /\ IF ~connector.present
       THEN Step(t, [threads[t] EXCEPT !.pc = "g_done",
                                       !.call.result = MsgNotConnected])
       ELSE Step(t, [threads[t] EXCEPT !.pc = "g_uid"])
    /\ UNCHANGED <<config_file, connector>>
    /\ Inside

\* or not self.connector.uid, and the statements up to the try
G_Uid(t) ==
    LET text == threads[t].call.args.prompt
        m == re_search_vat(text)
        nvp == normalize_vat(PyStr(m.group))
        fields == InferFields(str_lower(text))
        asked == [threads[t].call EXCEPT
                     !.vat_match = m,
                     !.normalized_vat_prompt = nvp,
                     !.fields_to_query = fields]
    IN  /\ threads[t].pc = "g_uid"
        /\ IF connector.uid = 0
           THEN Step(t, [threads[t] EXCEPT !.pc = "g_done",
                                           !.call.result = MsgNotConnected])
           ELSE IF ~m.found
           THEN Step(t, [threads[t] EXCEPT !.pc = "g_done", !.seen = connector,
                                           !.call.result = MsgNoVat])
           ELSE Step(t, [threads[t] EXCEPT !.pc = "g_query", !.seen = connector,
                                           !.call = asked])
        /\ UNCHANGED <<config_file, connector>>
        /\ Inside

\* the try block: self.connector.search_read(...), whose first statement
\* raises ConnectionError when the connector has no uid, and what follows it
G_Query(t) ==
    LET call == threads[t].call
        nvp == call.normalized_vat_prompt
        sent == [call EXCEPT
                    !.queries = <<[term |-> LastChars(nvp, SearchTermLen),
                                   fields |-> call.fields_to_query]>>]
        prompt_lower == str_lower(call.args.prompt)
    IN  /\ threads[t].pc = "g_query"
        /\ IF connector.uid = 0
           THEN Step(t, [threads[t] EXCEPT
                            !.pc = "g_done", !.used = connector,
                            !.call = ExceptClause([call EXCEPT
                                         !.exc = E_not_authenticated])])
           ELSE \E remote_ok \in BOOLEAN :
                    Step(t, [threads[t] EXCEPT
                                !.pc = "g_done", !.used = connector,
                                !.call = IF remote_ok
                                         THEN ExceptClause(AfterQuery(sent, prompt_lower))
                                         ELSE ExceptClause([sent EXCEPT
                                                  !.exc = "Odoo API call error"])])
        /\ UNCHANGED <<config_file, connector>>
        /\ Inside

\* the text goes back to the router
G_Return(t) ==
    /\ threads[t].pc = "g_done"
    /\ SetCall(Handled(threads[t].call))
    /\ Step(t, IdleThread)
    /\ UNCHANGED <<config_file, connector, prompt, partners>>
    /\ UNCHANGED nvVars
    /\ UNCHANGED fsVars

\* configure_odoo: the split and the format test
C_Start(t, connection_string) ==
    LET parts == str_split(connection_string, "|")
        started == [NoCall EXCEPT !.op = "configure_odoo",
                                  !.args = [connection_string |->
                                                connection_string]]
    IN  /\ threads[t].pc = "idle"
        /\ IF Len(parts) # 4
           THEN Step(t, [IdleThread EXCEPT
                            !.pc = "c_done",
                            !.call = [started EXCEPT !.result = MsgBadFormat]])
           ELSE Step(t, [IdleThread EXCEPT !.pc = "c_open", !.call = started,
                                           !.config = ConfigOf(parts)])
        /\ UNCHANGED <<config_file, connector>>
        /\ Inside

\* save_config: open(CONFIG_FILE, "w")
C_Open(t) ==
    /\ threads[t].pc = "c_open"
    /\ config_file' = Truncated
    /\ Step(t, [threads[t] EXCEPT !.pc = "c_dump"])
    /\ UNCHANGED connector
    /\ Inside

\* save_config: json.dump and the close that writes the text
C_Dump(t) ==
    /\ threads[t].pc = "c_dump"
    /\ config_file' = threads[t].config
    /\ Step(t, [threads[t] EXCEPT !.pc = "c_load"])
    /\ UNCHANGED connector
    /\ Inside

\* OdooConnector.__init__: load_config(); json.load of an empty file raises,
\* and configure_odoo's except clause makes a text of it
C_Load(t) ==
    /\ threads[t].pc = "c_load"
    /\ IF config_file = Truncated
       THEN Step(t, [threads[t] EXCEPT
                        !.pc = "c_done",
                        !.call.result = MsgReconnectError(E_json)])
       ELSE Step(t, [threads[t] EXCEPT !.pc = "c_auth", !.loaded = config_file])
    /\ UNCHANGED <<config_file, connector>>
    /\ Inside

\* OdooConnector.connect: common.authenticate with the credentials loaded
C_Auth(t) ==
    /\ threads[t].pc = "c_auth"
    /\ \E uid \in AuthOutcomes :
           Step(t, [threads[t] EXCEPT
                       !.pc = "c_assign",
                       !.made = NewConnector(threads[t].loaded, uid),
                       !.call.auths = <<threads[t].loaded>>])
    /\ UNCHANGED <<config_file, connector>>
    /\ Inside

\* self.connector = OdooConnector()
C_Assign(t) ==
    /\ threads[t].pc = "c_assign"
    /\ connector' = threads[t].made
    /\ Step(t, [threads[t] EXCEPT !.pc = "c_status"])
    /\ UNCHANGED config_file
    /\ Inside

\* the condition of the status text: self.connector and self.connector.uid
C_Status(t) ==
    /\ threads[t].pc = "c_status"
    /\ IF connector.uid = 0
       THEN Step(t, [threads[t] EXCEPT !.pc = "c_done",
                                       !.call.result = MsgConfigured(0)])
       ELSE Step(t, [threads[t] EXCEPT !.pc = "c_text"])
    /\ UNCHANGED <<config_file, connector>>
    /\ Inside

\* 'OK (UID: ' + str(self.connector.uid) + ')'
C_Text(t) ==
    /\ threads[t].pc = "c_text"
    /\ Step(t, [threads[t] EXCEPT
                   !.pc = "c_done",
                   !.call.result =
                       <<"[v] Config saved. Connection status: ", "OK (UID: ",
                         IF connector.uid = 0 THEN "None"
                         ELSE ToString(connector.uid), ")">>])
    /\ UNCHANGED <<config_file, connector>>
    /\ Inside

\* the text goes back to the router
C_Return(t) ==
    /\ threads[t].pc = "c_done"
    /\ SetCall(Handled(threads[t].call))
    /\ Step(t, IdleThread)
    /\ UNCHANGED <<config_file, connector, prompt, partners>>
    /\ UNCHANGED nvVars
    /\ UNCHANGED fsVars

----------------------------------------------------------------------------
(* The filesystem behind pathlib.Path, and the file tools of both servers. *)
(* A path is the sequence of names below the directory the servers resolve *)
(* paths in; a file holds bytes: an ASCII character is its own byte, the   *)
(* letter U+00DF is the two bytes "xC3" "x9F", and "xFF" is a byte that no *)
(* UTF-8 text holds.                                                       *)

N_d == <<"d">>
N_f == <<"f">>
N_docx == <<"r",".","d","o","c","x">>
N_s == <<"s">>
N_h == <<".","h">>

\* the paths of the bounded filesystem: a directory, three entries in it (one
\* of them hidden), and one more entry beside it
FsPaths == { <<N_d>>, <<N_d, N_f>>, <<N_d, N_docx>>, <<N_d, N_h>>, <<N_s>> }

Last(s) == s[Len(s)]
Parent(p) == SubSeq(p, 1, Len(p) - 1)

\* str(file_path)
RECURSIVE PathText(_)
PathText(p) ==
    IF p = <<>> THEN <<>> ELSE <<"/">> \o Head(p) \o PathText(Tail(p))

\* Path.suffix: the last dot of the name and what follows it
Suffix(name) ==
    LET dots == {i \in DOMAIN name : name[i] = "."}
    IN  IF dots = {} THEN <<>>
        ELSE LET k == CHOOSE i \in dots : \A j \in dots : j <= i
             IN  IF 1 < k /\ k < Len(name) THEN SubSeq(name, k, Len(name))
                 ELSE <<>>

Absent == [kind |-> "absent", bytes |-> <<>>, docx |-> FALSE, perm |-> "rw"]
Dir == [kind |-> "dir", bytes |-> <<>>, docx |-> FALSE, perm |-> "rw"]
\* a Unix socket: it exists and is neither a file nor a directory
Socket == [kind |-> "socket", bytes |-> <<>>, docx |-> FALSE, perm |-> "rw"]
File(bytes) == [kind |-> "file", bytes |-> bytes, docx |-> FALSE, perm |-> "rw"]
\* a file the process may neither read nor write
Locked(bytes) == [kind |-> "file", bytes |-> bytes, docx |-> FALSE, perm |-> "none"]
\* a Word package; bytes stands for the text of its paragraphs
Docx(paragraphs) ==
    [kind |-> "file", bytes |-> paragraphs, docx |-> TRUE, perm |-> "rw"]

\* directories by mode: 0555 lets the process list and traverse it, 0444
\* only list it, 0000 nothing
ReadOnlyDir == [kind |-> "dir", bytes |-> <<>>, docx |-> FALSE, perm |-> "rx"]
ListOnlyDir == [kind |-> "dir", bytes |-> <<>>, docx |-> FALSE, perm |-> "r"]
NoAccessDir == [kind |-> "dir", bytes |-> <<>>, docx |-> FALSE, perm |-> "none"]
\* a symbolic link to "." : it names the directory that holds it
LinkUp == [kind |-> "link", bytes |-> <<>>, docx |-> FALSE, perm |-> "rw"]

\* the directory the paths are resolved in always exists
KindOf(tree, p) == IF p = <<>> THEN "dir" ELSE tree[p].kind

\* the directory the paths are resolved in has mode 0755 and is the process's
PermOf(tree, p) == IF p = <<>> THEN "rw" ELSE tree[p].perm

\* stat of p fails with EACCES: the directory that holds p may not be traversed
Denied(tree, p) ==
    /\ p # <<>>
    /\ KindOf(tree, Parent(p)) = "dir"
    /\ PermOf(tree, Parent(p)) \in {"r", "none"}

\* Path.resolve(): a symbolic link is replaced by what it names
Resolve(tree, p) ==
    IF p # <<>> /\ ~Denied(tree, p) /\ tree[p].kind = "link" THEN Parent(p)
    ELSE p

\* entries may be made in and removed from the directory that holds p
CanAlter(tree, p) == p # <<>> /\ PermOf(tree, Parent(p)) = "rw"

\* os.linesep of the platform the model describes (POSIX)
linesep == <<"\n">>

\* text-mode write with newline=None: '\n' becomes os.linesep
RECURSIVE NewlineOut(_)
NewlineOut(text) ==
    IF text = <<>> THEN <<>>
    ELSE (IF Head(text) = "\n" THEN linesep ELSE <<Head(text)>>)
             \o NewlineOut(Tail(text))

\* text-mode read with newline=None: '\r\n' and '\r' become '\n'
RECURSIVE NewlineIn(_)
NewlineIn(text) ==
    IF text = <<>> THEN <<>>
    ELSE IF Head(text) = "\r"
    THEN IF Len(text) >= 2 /\ text[2] = "\n"
         THEN <<"\n">> \o NewlineIn(SubSeq(text, 3, Len(text)))
         ELSE <<"\n">> \o NewlineIn(Tail(text))
    ELSE <<Head(text)>> \o NewlineIn(Tail(text))

\* str.encode('utf-8')
RECURSIVE Utf8Encode(_)
Utf8Encode(text) ==
    IF text = <<>> THEN <<>>
    ELSE (IF Head(text) = "eszett" THEN <<"xC3", "x9F">> ELSE <<Head(text)>>)
             \o Utf8Encode(Tail(text))

\* bytes.decode('utf-8'): ok is FALSE where Python raises UnicodeDecodeError
RECURSIVE Utf8Decode(_)
Utf8Decode(bytes) ==
    IF bytes = <<>> THEN [ok |-> TRUE, text |-> <<>>]
    ELSE IF Head(bytes) = "xC3"
    THEN IF Len(bytes) >= 2 /\ bytes[2] = "x9F"
         THEN LET rest == Utf8Decode(SubSeq(bytes, 3, Len(bytes)))
              IN  [ok |-> rest.ok, text |-> <<"eszett">> \o rest.text]
         ELSE [ok |-> FALSE, text |-> <<>>]
    ELSE IF Head(bytes) \in {"x9F", "xFF"} THEN [ok |-> FALSE, text |-> <<>>]
    ELSE LET rest == Utf8Decode(Tail(bytes))
         IN  [ok |-> rest.ok, text |-> <<Head(bytes)>> \o rest.text]

E_permission == "[Errno 13] Permission denied"
E_decode == "'utf-8' codec can't decode byte"
E_exists == "[Errno 17] File exists"
E_notdir == "[Errno 20] Not a directory"
E_isdir == "[Errno 21] Is a directory"
E_nodevice == "[Errno 6] No such device or address"
E_notzip == "File is not a zip file"
E_notempty == "[Errno 39] Directory not empty"

\* Path.read_text(encoding='utf-8') of a file node; exc is the exception
\* raised, decode tells a UnicodeDecodeError from the others
ReadText(node) ==
    IF node.perm = "none"
    THEN [text |-> <<>>, exc |-> E_permission, decode |-> FALSE]
    ELSE IF node.docx \/ ~Utf8Decode(node.bytes).ok
    THEN [text |-> <<>>, exc |-> E_decode, decode |-> TRUE]
    ELSE [text |-> NewlineIn(Utf8Decode(node.bytes).text), exc |-> "",
          decode |-> FALSE]

\* "\n".join(para.text for para in docx.Document(path).paragraphs)
DocxText(node) ==
    IF node.perm = "none" THEN [text |-> <<>>, exc |-> E_permission]
    ELSE IF ~node.docx THEN [text |-> <<>>, exc |-> E_notzip]
    ELSE [text |-> node.bytes, exc |-> ""]

\* Path.mkdir(parents=True, exist_ok=True)
RECURSIVE Mkdirs(_, _)
Mkdirs(tree, q) ==
    IF KindOf(tree, q) = "dir" THEN [tree |-> tree, exc |-> ""]
    ELSE IF KindOf(tree, q) # "absent" THEN [tree |-> tree, exc |-> E_exists]
    ELSE IF KindOf(tree, Parent(q)) \in {"file", "socket"}
    THEN [tree |-> tree, exc |-> E_notdir]
    ELSE LET up == Mkdirs(tree, Parent(q))
         IN  IF up.exc # "" THEN up
             ELSE [tree |-> [up.tree EXCEPT ![q] = Dir], exc |-> ""]

\* Path.write_text(content, encoding='utf-8')
WriteText(tree, p, content) ==
    CASE KindOf(tree, p) = "dir" -> [tree |-> tree, exc |-> E_isdir]
      [] KindOf(tree, p) = "socket" -> [tree |-> tree, exc |-> E_nodevice]
      [] KindOf(tree, p) = "file" /\ tree[p].perm = "none" ->
             [tree |-> tree, exc |-> E_permission]
      [] KindOf(tree, p) = "absent" /\ ~CanAlter(tree, p) ->
             [tree |-> tree, exc |-> E_permission]
      [] OTHER ->
             [tree |-> [tree EXCEPT ![p] = File(Utf8Encode(NewlineOut(content)))],
              exc |-> ""]

\* the paths at or below p
Below(p) == {q \in FsPaths : Len(q) >= Len(p) /\ SubSeq(q, 1, Len(p)) = p}

Remove(tree, gone) == [q \in FsPaths |-> IF q \in gone THEN Absent ELSE tree[q]]

HasEntries(tree, p) == \E q \in Below(p) : q # p /\ tree[q].kind # "absent"

----------------------------------------------------------------------------
(* read_file, write_file and delete_file. A handler yields the call's      *)
(* record and the filesystem it leaves; exc is the exception it raises.    *)

FsCall(name, a) == [NoCall EXCEPT !.op = name, !.args = a]

Returns(call, text) == [call EXCEPT !.outcome = "text", !.result = text]

Raises(call, e) == [call EXCEPT !.exc = e]

KeyError(key) == "'" \o key \o "'"

\* FileSystemTools.read_file
read_file(tree, a) ==
    LET call == FsCall("read_file", a)
        p == Resolve(tree, a.file_path)
    IN  IF "file_path" \notin DOMAIN a THEN Raises(call, KeyError("file_path"))
        ELSE IF Denied(tree, p) THEN Raises(call, E_permission)
        ELSE IF KindOf(tree, p) # "file"
        THEN Returns(call, <<"Error:", " File not found at ">> \o PathText(p))
        ELSE IF Suffix(Last(p)) = <<".","d","o","c","x">>
        THEN IF DocxText(tree[p]).exc = ""
             THEN Returns(call, DocxText(tree[p]).text)
             ELSE Returns(call, <<"Error reading file ">> \o PathText(p)
                                    \o <<": ", DocxText(tree[p]).exc>>)
        ELSE IF ReadText(tree[p]).exc = ""
        THEN Returns(call, ReadText(tree[p]).text)
        ELSE Returns(call, <<"Error reading file ">> \o PathText(p)
                               \o <<": ", ReadText(tree[p]).exc>>)

\* FileSystemMCPServer._read_file
_read_file(tree, a) ==
    LET call == FsCall("read_file", a)
        p == Resolve(tree, a.file_path)
        size == ToString(Len(tree[p].bytes))
    IN  IF "file_path" \notin DOMAIN a THEN Raises(call, KeyError("file_path"))
        ELSE IF Denied(tree, p) THEN Raises(call, E_permission)
        ELSE IF KindOf(tree, p) = "absent"
        THEN Returns(call, <<"Error:", " File does not exist: ">> \o PathText(p))
        ELSE IF KindOf(tree, p) # "file"
        THEN Returns(call, <<"Error:", " Path is not a file: ">> \o PathText(p))
        ELSE IF ReadText(tree[p]).exc = ""
        THEN Returns(call, <<"File: ">> \o PathText(p)
                               \o <<"\nSize: ", size, " bytes\n\n">>
                               \o ReadText(tree[p]).text)
        ELSE IF ReadText(tree[p]).decode
        THEN Returns(call, <<"File: ">> \o PathText(p)
                               \o <<"\nSize: ", size, " bytes\nNote: ",
                                    "File appears to be binary and cannot be displayed as text.">>)
        ELSE Raises(call, ReadText(tree[p]).exc)

\* FileSystemTools.write_file and FileSystemMCPServer._write_file (the same
\* statements): the call and the tree it leaves
write_file(tree, a) ==
    LET call == FsCall("write_file", a)
        p == Resolve(tree, a.file_path)
        made == Mkdirs(tree, Parent(p))
        written == WriteText(made.tree, p, a.content)
    IN  IF "file_path" \notin DOMAIN a
        THEN [call |-> Raises(call, KeyError("file_path")), tree |-> tree]
        ELSE IF "content" \notin DOMAIN a
        THEN [call |-> Raises(call, KeyError("content")), tree |-> tree]
        ELSE IF Denied(tree, p)
        THEN [call |-> Raises(call, E_permission), tree |-> tree]
        ELSE IF made.exc # ""
        THEN [call |-> Raises(call, made.exc), tree |-> tree]
        ELSE IF written.exc # ""
        THEN [call |-> Raises(call, written.exc), tree |-> made.tree]
        ELSE [call |-> Returns(call, <<"Successfully wrote ",
                                       ToString(Len(a.content)),
                                       " characters to: ">> \o PathText(p)),
              tree |-> written.tree]

\* rmtree that empties the directory and leaves it
rmtree_ContentsOnly(tree, p) ==
    IF PermOf(tree, p) = "none" THEN [tree |-> tree, exc |-> E_permission]
    ELSE IF HasEntries(tree, p) /\ PermOf(tree, p) # "rw"
    THEN [tree |-> tree, exc |-> E_permission]
    ELSE [tree |-> Remove(tree, Below(p) \ {p}), exc |-> ""]

\* shutil.rmtree(p) of a directory: it lists p, removes what p holds and then
\* p itself; the exception of the first step that is refused
rmtree(tree, p) ==
    IF PermOf(tree, p) = "none" THEN [tree |-> tree, exc |-> E_permission]
    ELSE IF HasEntries(tree, p) /\ PermOf(tree, p) # "rw"
    THEN [tree |-> tree, exc |-> E_permission]
    ELSE IF ~CanAlter(tree, p)
    THEN [tree |-> Remove(tree, Below(p) \ {p}), exc |-> E_permission]
    ELSE [tree |-> Remove(tree, Below(p)), exc |-> ""]

\* Path.rmdir(): refused when p holds an entry (ENOTEMPTY) and when the
\* directory that holds p may not be written (EACCES); both are OSError
rmdir(tree, p) ==
    IF HasEntries(tree, p) THEN [tree |-> tree, exc |-> E_notempty]
    ELSE IF ~CanAlter(tree, p) THEN [tree |-> tree, exc |-> E_permission]
    ELSE [tree |-> Remove(tree, {p}), exc |-> ""]

\* FileSystemTools.delete_file and FileSystemMCPServer._delete_file (the same
\* statements); with neither a file nor a directory at the path the function
\* ends without a return statement
delete_file(tree, a) ==
    LET call == FsCall("delete_file", a)
        p == Resolve(tree, a.file_path)
        recursive == IF "recursive" \in DOMAIN a THEN a.recursive ELSE FALSE
    IN  IF "file_path" \notin DOMAIN a
        THEN [call |-> Raises(call, KeyError("file_path")), tree |-> tree]
        ELSE IF Denied(tree, p)
        THEN [call |-> Raises(call, E_permission), tree |-> tree]
        ELSE IF KindOf(tree, p) = "absent"
        THEN [call |-> Returns(call, <<"Error:", " Path does not exist: ">>
                                         \o PathText(p)),
              tree |-> tree]
        ELSE IF KindOf(tree, p) = "file"
        THEN IF ~CanAlter(tree, p)
             THEN [call |-> Raises(call, E_permission), tree |-> tree]
             ELSE [call |-> Returns(call, <<"Successfully deleted file: ">>
                                              \o PathText(p)),
                   tree |-> Remove(tree, {p})]
        ELSE IF KindOf(tree, p) = "dir"
        THEN IF recursive
             THEN IF rmtree(tree, p).exc # ""
                  THEN [call |-> Raises(call, rmtree(tree, p).exc),
                        tree |-> rmtree(tree, p).tree]
                  ELSE [call |-> Returns(call, <<"Successfully deleted directory recursively: ">>
                                                   \o PathText(p)),
                        tree |-> rmtree(tree, p).tree]
             ELSE IF rmdir(tree, p).exc # ""
             THEN [call |-> Returns(call, <<"Error:", " Directory not empty. Use recursive=true to delete: ">>
                                              \o PathText(p)),
                   tree |-> tree]
             ELSE [call |-> Returns(call, <<"Successfully deleted empty directory: ">>
                                              \o PathText(p)),
                   tree |-> rmdir(tree, p).tree]
        ELSE [call |-> [call EXCEPT !.outcome = "none"], tree |-> tree]

\* the deepest level scan_directory descends from: depth < 10
MaxDepth == 10

E_unbound == "cannot access local variable 'indent' where it is not associated with a value"

\* the names the bounded filesystem uses, in the order of sorted(): by
\* code point, '.' before the letters
SortedNames == <<N_h, N_d, N_f, N_docx, N_s>>

\* sorted(path.iterdir()): the names of the entries of a directory
Names(tree, path) ==
    SelectSeq(SortedNames,
              LAMBDA n : /\ Append(path, n) \in FsPaths
                         /\ tree[Append(path, n)].kind # "absent")

\* "  " * depth
RECURSIVE Indent(_)
Indent(depth) == IF depth = 0 THEN <<>> ELSE <<"  ">> \o Indent(depth - 1)

\* the line appended for one entry; the time of modification is not modelled
ItemLine(depth, node, name) ==
    Indent(depth)
        \o <<IF node.kind \in {"dir", "link"} THEN "[dir]" ELSE "[file]", " ">>
        \o name
        \o (IF node.kind = "file"
            THEN <<" (", ToString(Len(node.bytes)), " bytes)">> ELSE <<>>)
        \o <<" - ", "mtime">>

\* whether scan_directory descends one level further than the limit
Descends_OneDeeper(recursive, is_dir, depth) ==
    recursive /\ is_dir /\ depth <= MaxDepth

\* recursive and item.is_dir() and depth < 10
Descends(recursive, is_dir, depth) == recursive /\ is_dir /\ depth < MaxDepth

\* scan_directory(path, depth) of list_directory: the lines it appends, and the
\* exception that leaves it. iterdir() of a directory that may not be listed
\* raises PermissionError before indent is bound, and the except clause then
\* raises UnboundLocalError; stat() of an entry of a directory that may not be
\* traversed raises PermissionError after indent is bound.
RECURSIVE scan_directory(_, _, _, _, _)
RECURSIVE ScanItems(_, _, _, _, _, _)
scan_directory(tree, include_hidden, recursive, path, depth) ==
    IF PermOf(tree, path) = "none" THEN [items |-> <<>>, exc |-> E_unbound]
    ELSE ScanItems(tree, include_hidden, recursive, path, depth,
                   Names(tree, path))

\* the for loop of scan_directory over the names that remain
ScanItems(tree, include_hidden, recursive, path, depth, names) ==
    IF names = <<>> THEN [items |-> <<>>, exc |-> ""]
    ELSE LET name == Head(names)
             node == tree[Append(path, name)]
             is_dir == node.kind \in {"dir", "link"}
             target == IF node.kind = "link" THEN path ELSE Append(path, name)
             sub == IF Descends(recursive, is_dir, depth)
                    THEN scan_directory(tree, include_hidden, recursive,
                                        target, depth + 1)
                    ELSE [items |-> <<>>, exc |-> ""]
             rest == ScanItems(tree, include_hidden, recursive, path, depth,
                               Tail(names))
         IN  IF ~include_hidden /\ Head(name) = "." THEN rest
             ELSE IF PermOf(tree, path) = "r"
             THEN [items |-> << Indent(depth) \o <<"[x] Permission denied">> >>,
                   exc |-> ""]
             ELSE IF sub.exc # "" THEN sub
             ELSE IF rest.exc # "" THEN rest
             ELSE [items |-> <<ItemLine(depth, node, name)>> \o sub.items
                                 \o rest.items,
                   exc |-> ""]

\* FileSystemTools.list_directory and FileSystemMCPServer._list_directory (the
\* same statements)
list_directory(tree, a) ==
    LET call == FsCall("list_directory", a)
        p == Resolve(tree, a.directory_path)
        include_hidden ==
            IF "include_hidden" \in DOMAIN a THEN a.include_hidden ELSE FALSE
        recursive == IF "recursive" \in DOMAIN a THEN a.recursive ELSE FALSE
        scan == scan_directory(tree, include_hidden, recursive, p, 0)
    IN  IF "directory_path" \notin DOMAIN a
        THEN Raises(call, KeyError("directory_path"))
        ELSE IF Denied(tree, p) THEN Raises(call, E_permission)
        ELSE IF KindOf(tree, p) = "absent"
        THEN Returns(call, <<"Error:", " Directory does not exist: ">>
                               \o PathText(p))
        ELSE IF KindOf(tree, p) # "dir"
        THEN Returns(call, <<"Error:", " Path is not a directory: ">>
                               \o PathText(p))
        ELSE IF scan.exc # "" THEN Raises(call, scan.exc)
        ELSE Returns(call, <<"Directory: ">> \o PathText(p) \o <<"\n\n">>
                               \o JoinWith(scan.items, <<"\n">>))

\* the else branch of the two routers
unknown_tool(srv, name) ==
    Raises(FsCall(name, <<>>),
           IF srv = "unified"
           THEN "ERROR: The tool '" \o name \o "' is not recognized by the server."
           ELSE "Unknown tool: " \o name)

\* FileSystemMCPServer.handle_call_tool: except Exception as e
handle_call_tool(call) ==
    IF call.exc # ""
    THEN [call EXCEPT !.outcome = "text", !.result = <<"Error:", " ", call.exc>>,
                      !.exc = ""]
    ELSE call

\* what the server hands to the transport: UnifiedServer.call_tool returns
\* or raises what the handler did
Routed(srv, call) ==
    IF srv = "unified" THEN Handled(call) ELSE handle_call_tool(call)

----------------------------------------------------------------------------
(* Tool calls on the file tools of the running server.                     *)

MaxCalls == 2

\* the texts written: empty, plain, with a carriage return, non-ASCII
Contents == { <<>>, <<"h","i">>, <<"a", "\r", "\n", "b">>, <<"eszett", "\n">> }

Remember ==
    /\ prev' = [op |-> op, args |-> args, outcome |-> outcome, result |-> result]
    /\ ncalls' = ncalls + 1
    /\ UNCHANGED <<server, prompt, partners, config_file, connector>>
    /\ UNCHANGED <<nvVars, threads>>

ReadCall(a) ==
    /\ SetCall(Routed(server, IF server = "unified" THEN read_file(fs, a)
                              ELSE _read_file(fs, a)))
    /\ fs' = fs
    /\ Remember

ReadFile ==
    /\ ncalls < MaxCalls
    /\ \/ \E p \in FsPaths : ReadCall([file_path |-> p])
       \/ ReadCall(<<>>)

WriteCall(a) ==
    /\ SetCall(Routed(server, write_file(fs, a).call))
    /\ fs' = write_file(fs, a).tree
    /\ Remember

WriteFile ==
    /\ ncalls < MaxCalls
    /\ \/ \E p \in FsPaths, c \in Contents :
              WriteCall([file_path |-> p, content |-> c])
       \/ \E p \in FsPaths : WriteCall([file_path |-> p])
       \/ \E c \in Contents : WriteCall([content |-> c])

DeleteCall(a) ==
    /\ SetCall(Routed(server, delete_file(fs, a).call))
    /\ fs' = delete_file(fs, a).tree
    /\ Remember

DeleteFile ==
    /\ ncalls < MaxCalls
    /\ \/ \E p \in FsPaths : DeleteCall([file_path |-> p])
       \/ \E p \in FsPaths, r \in BOOLEAN :
              DeleteCall([file_path |-> p, recursive |-> r])
       \/ DeleteCall(<<>>)

ListCall(a) ==
    /\ SetCall(Routed(server, list_directory(fs, a)))
    /\ fs' = fs
    /\ Remember

ListDirectory ==
    /\ ncalls < MaxCalls
    /\ \/ \E p \in FsPaths \cup {<<>>} : ListCall([directory_path |-> p])
       \/ \E p \in FsPaths \cup {<<>>}, r \in BOOLEAN, h \in BOOLEAN :
              ListCall([directory_path |-> p, recursive |-> r,
                        include_hidden |-> h])
       \/ ListCall(<<>>)

\* a name that is in neither catalog
UnknownTool ==
    /\ ncalls < MaxCalls
    /\ SetCall(Routed(server, unknown_tool(server, "nope")))
    /\ fs' = fs
    /\ Remember

----------------------------------------------------------------------------
(* The tool catalogs and the routers of the two servers.                   *)

\* get_all_tools(): the names of the unified server's catalog, in its order
get_all_tools ==
    << "read_file", "write_file", "append_file", "list_directory",
       "create_directory", "delete_file", "move_file", "copy_file",
       "file_info", "search_files", "find_text", "configure_odoo",
       "get_contact_info" >>

\* FileSystemMCPServer.handle_list_tools: the standalone server's catalog
handle_list_tools ==
    << "read_file", "write_file", "append_file", "list_directory",
       "create_directory", "delete_file", "move_file", "copy_file",
       "file_info", "search_files", "find_text" >>

list_tools(srv) == IF srv = "unified" THEN get_all_tools ELSE handle_list_tools

\* the if/elif chain of FileSystemMCPServer.handle_call_tool: the name each
\* branch compares with, and the argument its handler reads first
StandaloneBranches ==
    << [name |-> "read_file", key |-> "file_path"],
       [name |-> "write_file", key |-> "file_path"],
       [name |-> "append_file", key |-> "file_path"],
       [name |-> "list_directory", key |-> "directory_path"],
       [name |-> "create_directory", key |-> "directory_path"],
       [name |-> "delete_file", key |-> "file_path"],
       [name |-> "move_file", key |-> "source_path"],
       [name |-> "copy_file", key |-> "source_path"],
       [name |-> "file_info", key |-> "file_path"],
       [name |-> "search_files", key |-> "directory_path"],
       [name |-> "find_text", key |-> "directory_path"] >>

\* the if/elif chain of UnifiedServer.call_tool
UnifiedBranches ==
    << [name |-> "read_file", key |-> "file_path"],
       [name |-> "write_file", key |-> "file_path"],
       [name |-> "append_file", key |-> "file_path"],
       [name |-> "list_directory", key |-> "directory_path"],
       [name |-> "create_directory", key |-> "directory_path"],
       [name |-> "delete_file", key |-> "file_path"],
       [name |-> "move_file", key |-> "source_path"],
       [name |-> "copy_file", key |-> "source_path"],
       [name |-> "file_info", key |-> "file_path"],
       [name |-> "search_files", key |-> "directory_path"],
       [name |-> "find_text", key |-> "directory_path"],
       [name |-> "configure_odoo", key |-> "connection_string"],
       [name |-> "get_contact_info", key |-> "prompt"] >>

\* a router whose chain lacks its last branch
Branches_LastMissing(srv) ==
    IF srv = "unified" THEN SubSeq(UnifiedBranches, 1, Len(UnifiedBranches) - 1)
    ELSE SubSeq(StandaloneBranches, 1, Len(StandaloneBranches) - 1)

Branches(srv) == IF srv = "unified" THEN UnifiedBranches ELSE StandaloneBranches

\* the router on a call whose arguments are {}: the first branch whose name
\* matches runs its handler, which raises KeyError on the first argument it
\* reads; with no such branch the else branch runs
call_tool(srv, name) ==
    LET hits == {i \in DOMAIN Branches(srv) : Branches(srv)[i].name = name}
    IN  IF hits = {} THEN unknown_tool(srv, name)
        ELSE LET first == CHOOSE i \in hits : \A j \in hits : i <= j
             IN  Raises(FsCall(name, <<>>), KeyError(Branches(srv)[first].key))

\* the names a client calls: those of either catalog and one of neither
ToolNames == {get_all_tools[i] : i \in DOMAIN get_all_tools} \cup {"nope"}

\* tools/list
ListTools ==
    /\ ncalls < MaxCalls
    /\ SetCall(Returns(FsCall("list_tools", <<>>), list_tools(server)))
    /\ fs' = fs
    /\ Remember

\* tools/call with a name and no arguments
CallTool ==
    /\ ncalls < MaxCalls
    /\ \E name \in ToolNames : SetCall(Routed(server, call_tool(server, name)))
    /\ fs' = fs
    /\ Remember

----------------------------------------------------------------------------
(* normalize_vat applied once and twice to a bounded input.                *)

NormalizeOnce ==
    /\ nv_pc = "in"
    /\ nv_out' = normalize_vat(nv_in)
    /\ nv_pc' = "once"
    /\ UNCHANGED <<nv_in, nv_twice, prompt, partners, config_file, connector>>
    /\ UNCHANGED <<callVars, threads>>
    /\ UNCHANGED fsVars

NormalizeTwice ==
    /\ nv_pc = "once"
    /\ nv_twice' = normalize_vat(PyStr(nv_out))
    /\ nv_pc' = "twice"
    /\ UNCHANGED <<nv_in, nv_out, prompt, partners, config_file, connector>>
    /\ UNCHANGED <<callVars, threads>>
    /\ UNCHANGED fsVars

----------------------------------------------------------------------------
(* Bounded inputs of the tools.                                            *)

MaxWords == 3
MaxPartners == 2

W_vat == <<"U","S","1","2","3","4","5","6","7","3">>
W_phone == <<"p","h","o","n","e">>
W_call == <<"c","a","l","l">>
W_addison == <<"A","d","d","i","s","o","n">>
W_lee == <<"L","e","e">>

\* the words the bounded prompts are made of: the VAT, a keyword, a word
\* that holds 'all', and the first words of two contact names
Vocabulary == {W_vat, W_phone, W_call, W_addison, W_lee}

RECURSIVE PromptsOf(_, _)
PromptsOf(words, n) ==
    IF n = 1 THEN words
    ELSE LET shorter == PromptsOf(words, n - 1)
         IN  shorter \cup {w \o <<" ">> \o s : w \in words, s \in shorter}

\* the three example prompts of get_contact_info's docstring
D_specific == <<"g","e","t"," ","t","h","e"," ","j","o","b"," ","a","n","d"," ","p","h","o","n","e"," ","f","o","r"," ","A","d","d","i","s","o","n"," ","O","l","s","o","n"," ","w","i","t","h"," ","v","a","t"," ","U","S","1","2","3","4","5","6","7","3">>
D_full == <<"g","e","t"," ","t","h","e"," ","f","u","l","l"," ","d","e","t","a","i","l","s"," ","f","o","r"," ","v","a","t"," ","U","S","1","2","3","4","5","6","7","3">>
D_default == <<"i","n","f","o"," ","f","o","r"," ","v","a","t"," ","U","S","1","2","3","4","5","6","7","3">>

DocExamples == {D_specific, D_full, D_default}

\* prompts whose tokens meet the limits of the pattern: a run of more than
\* 15 characters, hyphens at the edges of a run, a non-ASCII letter
EdgePrompts == { <<"1","2","3","4","5","6","7","-","1","2","3","4","5","6","7","8">>, <<"-","-","1","2","3","4","5","-","-">>, <<"-","1","2","3","4","5","6","7">>,
                 <<"a","b","c","d","e","f","g","h","i","j","k","l","m","n","o","p","q","-","1","2","3","4","5","6","7">>, <<"u","s","-","1","2","3",".","4","5","6",".","7","3">>,
                 <<"M","eszett","1","2","3","4","5","6","7">> }

\* prompts with the other keywords and with the VAT in another spelling
W_vat_hyphen == <<"u","s","-","1","2","3","4","5","6","7","3">>

MorePrompts == { W_vat_hyphen, <<"L","e","e"," ","u","s","-","1","2","3","4","5","6","7","3">>, <<"u","s","-","1","2","3","4","5","6","7","3"," ","A","d","d","i","s","o","n">>,
                 <<"d","e","t","a","i","l","s"," ","U","S","1","2","3","4","5","6","7","3">>, <<"U","S","1","2","3","4","5","6","7","3"," ","d","e","t","a","i","l","s">>,
                 <<"j","o","b"," ","U","S","1","2","3","4","5","6","7","3">>, <<"j","o","b"," ","p","h","o","n","e"," ","U","S","1","2","3","4","5","6","7","3">>,
                 <<"U","S","1","2","3","4","5","6","7","3"," ","e","m","a","i","l"," ","w","e","b","s","i","t","e">>, <<"a","d","d","r","e","s","s"," ","U","S","1","2","3","4","5","6","7","3">>,
                 <<"U","S","1","2","3","4","5","6","7","3"," ","a","d","d","r","e","s","s">>, <<"a","l","l"," ","U","S","1","2","3","4","5","6","7","3">>, <<"U","S","1","2","3","4","5","6","7","3"," ","f","u","l","l","y">> }

Prompts == PromptsOf(Vocabulary, MaxWords) \cup DocExamples \cup EdgePrompts
               \cup MorePrompts

P_addison == [id |-> 1, name |-> PyStr(<<"A","d","d","i","s","o","n"," ","O","l","s","o","n">>), vat |-> PyStr(<<"U","S","1","2","3","4","5","6","7","3">>),
              phone |-> PyStr(<<"5","5","5">>), function |-> PyFalse,
              mobile |-> PyList(<<PyInt(3), PyStr(<<"C","e","l","l">>)>>),
              email |-> PyList(<<PyInt(1), PyInt(2), PyInt(3)>>),
              website |-> PyStr(<<"F","a","l","s","e">>)]
P_lee == [id |-> 2, name |-> PyStr(<<"L","e","e"," ","A","n","n">>), vat |-> PyStr(<<"u","s","1","2","3","4","5","6","7","3">>),
          phone |-> PyFalse, function |-> PyStr(<<"C","E","O">>),
          mobile |-> PyInt(42), email |-> PyList(<<>>),
          website |-> PyList(<<PyInt(5), PyFalse>>),
          contact_address_complete |-> PyStr(<<"1"," ","M","a","i","n"," ","S","t">>)]
P_blank == [id |-> 3, name |-> PyStr(<<" ">>), vat |-> PyStr(<<"U","S","1","2","3","4","5","6","7","3">>),
            phone |-> PyFalse, function |-> PyFalse, mobile |-> PyFalse,
            email |-> PyFalse, website |-> PyFalse]
P_other == [id |-> 4, name |-> PyStr(<<"D","e","e">>), vat |-> PyStr(<<"D","E","9","9","3","4","5","6","7","3">>),
            phone |-> PyStr(<<"7","7","7">>), function |-> PyFalse, mobile |-> PyInt(0),
            email |-> PyList(<<PyInt(9)>>), website |-> PyStr(<<>>)]
P_barbara == [id |-> 5, name |-> PyStr(<<"B","a","r","b","a","r","a"," ","L","e","e">>), vat |-> PyStr(<<"U","S","-","1","2","3",".","4","5","6",".","7","3">>),
              phone |-> PyStr(<<"8","8","8">>), function |-> PyFalse, mobile |-> PyFalse,
              email |-> PyFalse, website |-> PyFalse]

Contacts == {P_addison, P_lee, P_blank, P_other, P_barbara}

RECURSIVE TablesOf(_, _)
TablesOf(contacts, n) ==
    IF n = 0 THEN {<<>>}
    ELSE LET shorter == TablesOf(contacts, n - 1)
             longer(t) == {Append(t, p) :
                             p \in {q \in contacts : \A i \in DOMAIN t : t[i] # q}}
         IN  shorter \cup UNION {longer(t) : t \in shorter}

Tables == TablesOf(Contacts, MaxPartners)

\* the credentials file found at start-up: the four keys and one more
C_file == [present |-> TRUE, ODOO_URL |-> <<"h">>, ODOO_DB |-> <<"d">>,
           ODOO_USERNAME |-> <<"u">>, ODOO_PASSWORD |-> <<"p">>,
           ODOO_PORT |-> <<"8">>]

ConnectionStrings == { <<"h","|","d","|","u","|","q">>, <<" ","h","|","d","|"," ","u"," ","|","q"," ">>, <<"h","|","d","|","u">>, <<"h","|","d","|","u","|","p","|","q">> }

Tree(d, f, x, s) ==
    (<<N_d>> :> d) @@ (<<N_d, N_f>> :> f) @@ (<<N_d, N_docx>> :> x)
        @@ (<<N_s>> :> s) @@ (<<N_d, N_h>> :> Absent)

\* the same filesystem with a hidden entry in the directory
WithHidden(tree, h) == [tree EXCEPT ![<<N_d, N_h>>] = h]

\* the filesystems a server may start on: nothing there; a text file; a file
\* of bytes that are not UTF-8 beside a Word package; a socket; a text file
\* with a carriage return that the process may not open; a file where the
\* paths expect a directory; a directory of mode 0555 that holds an empty
\* directory and a file, and an empty one; directories of mode 0000 and 0444;
\* a directory with a symbolic link to itself, plain and hidden
Trees == { Tree(Absent, Absent, Absent, Absent),
           Tree(Dir, File(<<"h","i">>), Absent, Absent),
           Tree(Dir, File(<<"xFF", "h">>), Docx(<<"p">>), Absent),
           Tree(Dir, File(<<"a", "\r", "b">>), File(<<"z","i","p">>), Socket),
           Tree(Dir, Locked(<<"h","i">>), Absent, Socket),
           Tree(File(<<"h","i">>), Absent, Absent, Absent),
           Tree(ReadOnlyDir, Dir, File(<<"h","i">>), File(<<"h">>)),
           Tree(ReadOnlyDir, Absent, Absent, Absent),
           Tree(NoAccessDir, File(<<"h","i">>), Absent, File(<<"h">>)),
           Tree(ListOnlyDir, File(<<"h","i">>), Absent, File(<<"h">>)),
           WithHidden(Tree(Dir, LinkUp, File(<<"z","i","p">>), File(<<"h">>)),
                      File(<<"h">>)),
           WithHidden(Tree(Dir, Dir, Absent, Absent), LinkUp) }

NoPrev == [op |-> "none", args |-> <<>>, outcome |-> "idle", result |-> <<>>]

\* no file tool was called and the filesystem is empty
FsIdle ==
    /\ server = "unified"
    /\ fs = Tree(Absent, Absent, Absent, Absent)
    /\ prev = NoPrev
    /\ ncalls = 0

----------------------------------------------------------------------------
(* The state after UnifiedServer.__init__, and the specifications.         *)

\* OdooConnector() at start-up: no connector without a credentials file
Startup ==
    \/ config_file = NoConfig /\ connector = NoConnector
    \/ /\ config_file = C_file
       /\ \E uid \in AuthOutcomes : connector = NewConnector(C_file, uid)

NormIdle ==
    /\ nv_in = PyFalse
    /\ nv_out = <<>>
    /\ nv_twice = <<>>
    /\ nv_pc = "idle"

NoCallYet ==
    /\ op = NoCall.op
    /\ args = NoCall.args
    /\ outcome = NoCall.outcome
    /\ exc = NoCall.exc
    /\ result = NoCall.result
    /\ auths = NoCall.auths
    /\ vat_match = NoCall.vat_match
    /\ normalized_vat_prompt = NoCall.normalized_vat_prompt
    /\ fields_to_query = NoCall.fields_to_query
    /\ queries = NoCall.queries
    /\ candidates = NoCall.candidates
    /\ exact_partners = NoCall.exact_partners
    /\ found_partners = NoCall.found_partners
    /\ threads = [t \in Threads |-> IdleThread]

\* the server with one prompt and one remote table, any tool call next
Init ==
    /\ prompt \in PromptsOf(Vocabulary, 1)
    /\ partners \in TablesOf(Contacts, 1)
    /\ Startup
    /\ NoCallYet
    /\ NormIdle
    /\ FsIdle

Next ==
    \/ GetContactInfo
    \/ \E cs \in ConnectionStrings : ConfigureOdoo(cs)

Spec == Init /\ [][Next]_vars

\* get_contact_info over the bounded prompts and remote tables
InitLookup ==
    /\ prompt \in Prompts
    /\ partners \in Tables
    /\ Startup
    /\ NoCallYet
    /\ NormIdle
    /\ FsIdle

\* prompts whose token is made of hyphens alone, between two underscores
HyphenPrompts == { <<"_","-","-","-","-","-","-","-","_">>, <<"v","a","t"," ","_","-","-","-","-","-","-","-","-","_">> }

\* a contact whose VAT is not set
P_unset == [id |-> 6, name |-> PyStr(<<"Z","e","d">>), vat |-> PyFalse,
            phone |-> PyStr(<<"9","9","9">>), function |-> PyFalse, mobile |-> PyFalse,
            email |-> PyFalse, website |-> PyFalse]

\* get_contact_info over prompts at the limits of the pattern and tables
\* that hold contacts without a VAT
InitUnset ==
    /\ prompt \in HyphenPrompts \cup EdgePrompts \cup DocExamples
    /\ partners \in TablesOf({P_addison, P_lee, P_unset}, MaxPartners)
    /\ Startup
    /\ NoCallYet
    /\ NormIdle
    /\ FsIdle

NextLookup == GetContactInfo

SpecLookup == InitLookup /\ [][NextLookup]_vars

SpecUnset == InitUnset /\ [][NextLookup]_vars

\* normalize_vat over the bounded strings
InitNorm ==
    /\ nv_in \in VatInputs
    /\ nv_out = <<>>
    /\ nv_twice = <<>>
    /\ nv_pc = "in"
    /\ prompt = <<>>
    /\ partners = <<>>
    /\ config_file = NoConfig
    /\ connector = NoConnector
    /\ NoCallYet
    /\ FsIdle

NextNorm == NormalizeOnce \/ NormalizeTwice

SpecNorm == InitNorm /\ [][NextNorm]_vars

\* either server over a bounded filesystem, file tool calls next
InitFS ==
    /\ server \in {"unified", "standalone"}
    /\ fs \in Trees
    /\ prev = NoPrev
    /\ ncalls = 0
    /\ prompt = <<>>
    /\ partners = <<>>
    /\ config_file = NoConfig
    /\ connector = NoConnector
    /\ NoCallYet
    /\ NormIdle

NextFS == ReadFile \/ WriteFile \/ DeleteFile \/ UnknownTool

SpecFS == InitFS /\ [][NextFS]_vars

\* list_directory on the filesystems a server may start on
NextList == ListDirectory

\* the connection strings of calls in flight: two sets of credentials and
\* one string of three segments
RaceStrings ==
    { <<"h","|","d","|","u","|","q">>, <<"h","|","d","|","u","|","r">>,
      <<"h","|","d","|","u">> }

\* the server with one prompt and one remote table, two calls in flight
InitRace ==
    /\ prompt \in {D_default, W_phone}
    /\ partners = <<P_addison>>
    /\ Startup
    /\ NoCallYet
    /\ NormIdle
    /\ FsIdle

NextRace ==
    \E t \in Threads :
        \/ G_Start(t) \/ G_Check(t) \/ G_Uid(t) \/ G_Query(t) \/ G_Return(t)
        \/ \E cs \in RaceStrings : C_Start(t, cs)
        \/ C_Open(t) \/ C_Dump(t) \/ C_Load(t) \/ C_Auth(t) \/ C_Assign(t)
        \/ C_Status(t) \/ C_Text(t) \/ C_Return(t)

SpecRace == InitRace /\ [][NextRace]_vars

\* tools/list and tools/call without arguments, on either server
NextTools == ListTools \/ CallTool

SpecTools == InitFS /\ [][NextTools]_vars

SpecList == InitFS /\ [][NextList]_vars

----------------------------------------------------------------------------
(* Properties of get_contact_info, checked under SpecLookup.               *)

Called == op = "get_contact_info"

\* the call sent its search_read
Queried == Called /\ queries # <<>>

\* the remote call answered (it did not raise)
Answered == Queried /\ result # MsgQueryError("Odoo API call error")

\* the call returned its "Information for ..." text
Succeeded == Called /\ result # <<>> /\ result[1] = "Information for "

VatUS == <<"U","S","1","2","3","4","5","6","7","3">>

PromptWords(text) == {w \in {str_split(text, " ")[i] : i \in DOMAIN str_split(text, " ")} : w # <<>>}

NormalizedVatOf(p) == normalize_vat(Get(p, "vat"))

\* C1: the partial query has no false negatives: every stored contact whose
\* normalized VAT equals the normalized prompt identifier is among the
\* candidates the query returns.
C1_NoFalseNegatives ==
    Answered =>
        \A i \in DOMAIN partners :
            NormalizedVatOf(partners[i]) = normalized_vat_prompt
                => \E j \in DOMAIN candidates : candidates[j].id = partners[i].id

\* C2: for the documented prompt forms, and for a prompt that adds a contact
\* name or a field keyword to the VAT, the identifier looked up is the VAT
\* US12345673 of the prompt.
C2_LooksUpPromptVat ==
    (Queried /\ (prompt \in DocExamples
                   \/ PromptWords(prompt) \cap {W_vat, W_vat_hyphen} # {}))
        => normalized_vat_prompt = VatUS

KeywordsIn(text) ==
    {i \in DOMAIN field_map : Contains(str_lower(text), field_map[i].keyword)}

\* C3: when a keyword occurs and none of 'all', 'full', 'details' is a word
\* of the prompt, the requested fields are exactly name, vat and the mapped
\* fields of the keywords that occur.
C3_KeywordFieldsExact ==
    (Queried /\ KeywordsIn(prompt) # {}
             /\ PromptWords(str_lower(prompt)) \cap full_words = {})
        => fields_to_query =
              {"name", "vat"} \cup UNION {field_map[i].odoo_fields : i \in KeywordsIn(prompt)}

\* C4: when no keyword of the field map occurs in the prompt, the requested
\* fields are name, vat and every mapped field, the set an explicit
\* 'full'/'all'/'details' request gets.
C4_DefaultExpansion ==
    (Queried /\ KeywordsIn(prompt) = {})
        => fields_to_query = {"name", "vat", "contact_address_complete", "phone",
                              "mobile", "email", "function", "website"}

\* a query for a prompt with no keyword and no 'all'/'full'/'details' in it
C4_Witness ==
    /\ Queried
    /\ KeywordsIn(prompt) = {}
    /\ \A k \in full_words : ~Contains(str_lower(prompt), k)
    /\ Cardinality(fields_to_query) = 8

\* the exact matches whose name's first word occurs in the lower-cased prompt
NamedInPrompt ==
    {i \in DOMAIN exact_partners :
        LET name == Get(exact_partners[i], "name")
        IN  /\ name.t = "str"
            /\ \E w \in PromptWords(str_lower(name.s)) :
                   /\ FirstWord(str_lower(name.s)).word = w
                   /\ Contains(str_lower(prompt), w)}

\* C5: with more than one exact match and at least one of them named in the
\* prompt, the result describes exactly one record: the first such record
\* in candidate order.
C5_FirstNamedRecordWins ==
    (Answered /\ Len(exact_partners) > 1 /\ NamedInPrompt # {})
        => LET first == CHOOSE i \in NamedInPrompt : \A j \in NamedInPrompt : i <= j
           IN  /\ found_partners = <<exact_partners[first]>>
               /\ result = PartnerInfo(exact_partners[first], normalized_vat_prompt)

NoExactCandidate ==
    \A i \in DOMAIN candidates :
        NormalizedVatOf(candidates[i]) # normalized_vat_prompt

\* C6: when the query answers and no candidate has the prompt's normalized
\* VAT (no candidate at all included), the result is the 'No contact found
\* with the exact VAT' message; no call returns an empty text.
C6_NoContactMessage ==
    /\ (Answered /\ NoExactCandidate)
          => result = <<"No contact found with the exact VAT '">>
                          \o normalized_vat_prompt \o <<"'.">>
    /\ Called => result # <<>>

\* the query returned candidates and none of them is an exact match
C6_Witness ==
    /\ Answered
    /\ candidates # <<>>
    /\ NoExactCandidate
    /\ result[1] = "No contact found with the exact VAT '"

HeaderCount == Cardinality({i \in DOMAIN result : result[i] = "Information for "})

\* C7: every record of a successful result has a VAT that normalizes to the
\* normalized prompt identifier, and the text has one block per such record.
C7_NoFalsePositives ==
    Succeeded =>
        /\ found_partners # <<>>
        /\ HeaderCount = Len(found_partners)
        /\ \A i \in DOMAIN found_partners :
               /\ NormalizedVatOf(found_partners[i]) = normalized_vat_prompt
               /\ \E j \in DOMAIN partners : partners[j].id = found_partners[i].id

\* a successful result while a candidate shared only the trailing characters
C7_Witness ==
    /\ Succeeded
    /\ \E i \in DOMAIN candidates :
           NormalizedVatOf(candidates[i]) # normalized_vat_prompt
    /\ HeaderCount = 1

\* the tokens of the pattern in s: <<offset, length>> of every run of 7 to 15
\* letters, digits and hyphens that has a word boundary at both ends
TokensOf(s) ==
    {tk \in (0..Len(s)) \X (MinTokenLen..MaxTokenLen) :
        /\ tk[1] + tk[2] <= Len(s)
        /\ \A k \in (tk[1] + 1)..(tk[1] + tk[2]) : InTokenClass(s[k])
        /\ WordBoundary(s, tk[1])
        /\ WordBoundary(s, tk[1] + tk[2])}

C11_FieldSetBounds ==
    Queried =>
        /\ {"name", "vat"} \subseteq fields_to_query
        /\ fields_to_query \subseteq {"name", "vat", "contact_address_complete",
                                      "phone", "mobile", "email", "function",
                                      "website"}
        /\ fields_to_query # {"name", "vat"}

\* queries with a proper part of the mapped fields, and with all of them for
\* a prompt that names no keyword
C11_Witness ==
    /\ Queried
    /\ \/ Cardinality(fields_to_query) \in 3..7
       \/ KeywordsIn(prompt) = {} /\ Cardinality(fields_to_query) = 8
    /\ prompt \in MorePrompts

\* C12: with more than one exact match and no record's first name-word in
\* the lower-cased prompt, every exact match is reported, in candidate
\* order, the blocks joined by the '---' separator; a result reports either
\* one record or all the exact matches.
C12_AllMatchesReported ==
    /\ (Answered /\ Len(exact_partners) > 1 /\ NamedInPrompt = {})
          => /\ found_partners = exact_partners
             /\ result = JoinWith([i \in DOMAIN exact_partners |->
                                      PartnerInfo(exact_partners[i],
                                                  normalized_vat_prompt)],
                                  <<"\n---\n">>)
    /\ (Answered /\ exact_partners # <<>>)
          => Len(found_partners) \in {1, Len(exact_partners)}

\* the blocks of a successful result, one per reported record
Blocks == str_split(result, "\n---\n")

\* where block holds a line for field f
LinesOf(block, f) ==
    {k \in 1..(Len(block) - 2) :
        block[k] = "  - " /\ block[k + 1] = FieldLabel(f) /\ block[k + 2] = ": "}

\* the text of the line that starts at piece k, up to its line end
TextOfLine(block, k) ==
    LET rest == SubSeq(block, k + 3, Len(block))
        n == CHOOSE j \in DOMAIN rest :
                 rest[j] = "\n" /\ \A i \in 1..(j - 1) : rest[i] # "\n"
    IN  SubSeq(rest, 1, n - 1)

IsPair(v) == v.t = "list" /\ Len(v.items) = 2

\* C13 as stated: one line for every field other than id, name and vat whose
\* value is truthy, a two-element list shown by its second element and any
\* other value by its string form; no line for an empty, absent or False
\* value.
C13_OneLinePerTruthyField ==
    Succeeded =>
        \A i \in DOMAIN found_partners : \A f \in AllMappedFields :
            LET p == found_partners[i]
                lines == LinesOf(Blocks[i], f)
            IN  IF f \in DOMAIN p /\ Truthy(p[f])
                THEN /\ Cardinality(lines) = 1
                     /\ \A k \in lines :
                            TextOfLine(Blocks[i], k) =
                                Shown(IF IsPair(p[f]) THEN p[f].items[2] ELSE p[f])
                ELSE lines = {}

\* what a value is shown as: the second element of a two-element list,
\* nothing for a list of another length, the value itself otherwise
Rendered(v) ==
    IF v.t = "list" THEN (IF IsPair(v) THEN v.items[2] ELSE PyFalse) ELSE v

\* C13, amended: one line for every field other than id, name and vat whose
\* rendered value is truthy and is not the text 'False', showing the string
\* form of the rendered value; no line for any other field (empty, absent or
\* False value, a list whose length is not two, a pair whose second element
\* is empty or False, the text 'False').
C13_OneLinePerRenderedField ==
    Succeeded =>
        \A i \in DOMAIN found_partners : \A f \in AllMappedFields :
            LET p == found_partners[i]
                lines == LinesOf(Blocks[i], f)
                shown == Rendered(Get(p, f))
            IN  IF Truthy(shown) /\ Shown(shown) # <<"F","a","l","s","e">>
                THEN /\ Cardinality(lines) = 1
                     /\ \A k \in lines : TextOfLine(Blocks[i], k) = Shown(shown)
                ELSE lines = {}

\* a reported record with a labelled pair, an int, a three-element list and
\* the text 'False' among its values
C13_Witness ==
    /\ Succeeded
    /\ \E i \in DOMAIN found_partners :
           LET p == found_partners[i]
           IN  /\ \E f \in DOMAIN p \cap AllMappedFields :
                      IsPair(p[f]) /\ LinesOf(Blocks[i], f) # {}
               /\ \E f \in DOMAIN p \cap AllMappedFields :
                      /\ p[f].t = "list" /\ Len(p[f].items) = 3
                      /\ LinesOf(Blocks[i], f) = {}
               /\ \E f \in DOMAIN p \cap AllMappedFields :
                      p[f] = PyStr(<<"F","a","l","s","e">>) /\ LinesOf(Blocks[i], f) = {}
    /\ \E i \in DOMAIN found_partners :
           \E f \in DOMAIN found_partners[i] \cap AllMappedFields :
               found_partners[i][f].t = "int" /\ LinesOf(Blocks[i], f) # {}

\* an exact match whose name holds no word is reached by the name scan
BlankNameScanned ==
    /\ Answered /\ Len(exact_partners) > 1
    /\ \E i \in DOMAIN exact_partners :
           /\ Truthy(Get(exact_partners[i], "name"))
           /\ PromptWords(Get(exact_partners[i], "name").s) = {}
           /\ \A j \in 1..(i - 1) : j \notin NamedInPrompt

----------------------------------------------------------------------------
(* Properties of the session state, checked under Spec.                    *)

\* C15: get_contact_info changes nothing: across every call, failed ones
\* included, the credentials file, the connector and its session identifier
\* are what they were, and the call authenticates nowhere.
C15_LookupMutatesNothing ==
    [][op' = "get_contact_info" =>
          /\ config_file' = config_file
          /\ connector' = connector
          /\ auths' = <<>>]_vars

\* a lookup whose remote call failed, the session still in place
C15_Witness ==
    /\ op = "get_contact_info"
    /\ result = <<"[x] Error while querying Odoo: ", "Odoo API call error">>
    /\ Connected(connector)
    /\ config_file.present

Segments(text) == str_split(text, "|")

\* the segments of the connection string of a configure_odoo call
Given == Segments(args.connection_string)

Spaces(n) == [i \in 1..n |-> " "]

\* t is segment without the spaces at its two ends
IsTrimOf(t, segment) ==
    /\ t = <<>> \/ (t[1] # " " /\ t[Len(t)] # " ")
    /\ \E a, b \in 0..Len(segment) : segment = Spaces(a) \o t \o Spaces(b)

CredentialKeys == {"ODOO_URL", "ODOO_DB", "ODOO_USERNAME", "ODOO_PASSWORD"}

\* C16: after a configure_odoo call with exactly four segments the stored
\* credentials are the four trimmed segments and nothing else, the call
\* authenticated once with those values, the connector holds them, and the
\* text reports 'OK (UID: n)' with the session identifier obtained, or
\* 'Failed' when none was.
C16_ConfigureReplacesAndAuthenticates ==
    (op = "configure_odoo" /\ Len(Given) = 4) =>
        /\ outcome = "text"
        /\ DOMAIN config_file = CredentialKeys \cup {"present"}
        /\ config_file.present
        /\ IsTrimOf(config_file.ODOO_URL, Given[1])
        /\ IsTrimOf(config_file.ODOO_DB, Given[2])
        /\ IsTrimOf(config_file.ODOO_USERNAME, Given[3])
        /\ IsTrimOf(config_file.ODOO_PASSWORD, Given[4])
        /\ auths = <<config_file>>
        /\ connector.present /\ connector.config = config_file
        /\ result = <<"[v] Config saved. Connection status: ">> \o
                      (IF connector.uid # 0
                       THEN <<"OK (UID: ", ToString(connector.uid), ")">>
                       ELSE <<"Failed">>)

\* a call with padded segments over a credentials file that held a fifth key
C16_Witness ==
    /\ op = "configure_odoo" /\ Len(Given) = 4
    /\ \E i \in 1..4 : Given[i] # str_strip(Given[i])
    /\ config_file.ODOO_USERNAME = <<"u">>
    /\ config_file.ODOO_PASSWORD = <<"q">>
    /\ "ODOO_PORT" \notin DOMAIN config_file
    /\ connector.uid # 0

\* C17: a configure_odoo call whose input has not exactly four segments
\* returns the format-error message and leaves the credentials file, the
\* connector and the session as they were, with no authentication attempt.
C17_BadFormatChangesNothing ==
    [][(op' = "configure_odoo" /\ Len(Segments(args'.connection_string)) # 4) =>
          /\ outcome' = "text"
          /\ result' = <<"[x] Incorrect format. Expected URL|DB|USER|PASSWORD">>
          /\ config_file' = config_file
          /\ connector' = connector
          /\ auths' = <<>>]_vars

\* a five-segment input was refused while a session was active
C17_Witness ==
    /\ op = "configure_odoo" /\ Len(Given) = 5
    /\ result = <<"[x] Incorrect format. Expected URL|DB|USER|PASSWORD">>
    /\ Connected(connector)
    /\ config_file.present

----------------------------------------------------------------------------
(* Properties of the file tools, checked under SpecFS.                     *)

FileTools == {"read_file", "write_file", "delete_file"}

\* the last call did not do what it was asked: an argument was missing, the
\* path read is no file, the path deleted is still there, or no file is at
\* the path written
CallFailed ==
    \/ "file_path" \notin DOMAIN args
    \/ op = "read_file" /\ fs[args.file_path].kind # "file"
    \/ op = "delete_file" /\ fs[args.file_path].kind # "absent"
    \/ op = "write_file" /\ "content" \notin DOMAIN args
    \/ op = "write_file" /\ fs[args.file_path].kind # "file"

\* C18: on both servers every call of a catalog tool, whatever its arguments
\* and the filesystem (missing path, path that is neither file nor
\* directory, permission failure, missing argument), returns one text block
\* and never an exception; the text of a failed call begins with 'Error:'.
C18_OneTextBlockNeverRaises ==
    op \in FileTools =>
        /\ outcome = "text"
        /\ exc = ""
        /\ CallFailed => (result # <<>> /\ result[1] = "Error:")

\* the last two calls wrote a text to a path and then read that path
WroteThenRead ==
    /\ prev.op = "write_file" /\ prev.outcome = "text"
    /\ prev.result # <<>> /\ prev.result[1] = "Successfully wrote "
    /\ op = "read_file" /\ "file_path" \in DOMAIN args
    /\ args.file_path = prev.args.file_path

\* where the standalone server's text ends its 'File: ... Size: ...' header
HeaderEnd == {k \in DOMAIN result : result[k] = " bytes\n\n"}

\* C19: after write_file(p, c) succeeded, read_file(p) returns content
\* identical to c, for every text c (carriage returns and the empty text
\* included), on both servers: the whole text on the unified server, the
\* text after the header on the standalone one.
C19_WriteReadRoundTrip ==
    WroteThenRead =>
        /\ outcome = "text"
        /\ IF server = "unified" THEN result = prev.args.content
           ELSE /\ HeaderEnd # {}
                /\ \A k \in HeaderEnd :
                       (\A j \in HeaderEnd : k <= j) =>
                           SubSeq(result, k + 1, Len(result)) = prev.args.content

\* the last call read an existing, readable file whose bytes are not UTF-8
ReadBinary ==
    /\ op = "read_file" /\ "file_path" \in DOMAIN args
    /\ fs[args.file_path].kind = "file"
    /\ fs[args.file_path].perm # "none"
    /\ ~fs[args.file_path].docx
    /\ ~Utf8Decode(fs[args.file_path].bytes).ok

\* C20: read_file on an existing file whose bytes are not valid UTF-8
\* returns, on both servers, a text that gives the file's size and notes
\* that the file is binary, and raises nothing.
C20_BinaryReadReportsSize ==
    ReadBinary =>
        /\ outcome = "text"
        /\ \E k \in DOMAIN result :
               /\ result[k] = "\nSize: "
               /\ result[k + 1] = ToString(Len(fs[args.file_path].bytes))
        /\ \E k \in DOMAIN result :
               result[k] = "File appears to be binary and cannot be displayed as text."

\* the last call was delete_file on a path, without recursive=true
DeletedPlainly ==
    /\ op = "delete_file" /\ "file_path" \in DOMAIN args
    /\ "recursive" \in DOMAIN args => ~args.recursive

\* the path a delete_file call works on
DeletedPath == Resolve(fs, args.file_path)

NotEmptyMessage ==
    <<"Error:", " Directory not empty. Use recursive=true to delete: ">>
        \o PathText(DeletedPath)

\* C21: delete_file on a non-empty directory with recursive absent or false
\* returns the in-band 'Directory not empty' error and leaves the directory
\* and its contents in place (a directory that still holds entries after the
\* call got that message), and the message is returned only when the
\* directory does hold an entry.
C21_NotEmptyMessageIffNotEmpty ==
    DeletedPlainly =>
        /\ (/\ ~Denied(fs, DeletedPath)
            /\ KindOf(fs, DeletedPath) = "dir"
            /\ HasEntries(fs, DeletedPath))
               => (outcome = "text" /\ result = NotEmptyMessage)
        /\ (outcome = "text" /\ result = NotEmptyMessage)
               => (KindOf(fs, DeletedPath) = "dir" /\ HasEntries(fs, DeletedPath))

\* the texts delete_file returns when it removed something
DeleteSuccess ==
    { "Successfully deleted file: ", "Successfully deleted empty directory: ",
      "Successfully deleted directory recursively: " }

\* the last call was delete_file with recursive=true
DeletedRecursively ==
    /\ op = "delete_file" /\ "file_path" \in DOMAIN args
    /\ "recursive" \in DOMAIN args /\ args.recursive

\* a file or a directory was at the path when delete_file was called: it is
\* still there, or the call reports that it removed it
WasFileOrDirectory ==
    \/ KindOf(fs, DeletedPath) \in {"file", "dir"}
    \/ outcome = "text" /\ result[1] \in DeleteSuccess

MayRemove(tree, p) ==
    /\ ~Denied(tree, p)
    /\ CanAlter(tree, p)
    /\ KindOf(tree, p) = "dir" => PermOf(tree, p) = "rw"

C27_SessionChangesOnlyByConfigure ==
    [][ /\ connector' # connector =>
               (op' = "configure_odoo" /\ Len(Segments(args'.connection_string)) = 4)
        /\ (op' = "configure_odoo" /\ Len(Segments(args'.connection_string)) = 4) =>
               /\ connector'.present
               /\ auths' = <<connector'.config>>
               /\ result' = MsgConfigured(connector'.uid)
               /\ result' = MsgConfigured(0) <=> ~Connected(connector')
        /\ (op' = "get_contact_info" /\ ~Connected(connector)) =>
               (result' = MsgNotConnected /\ ~Connected(connector')) ]_vars

\* a lookup was answered 'not connected' after a configure_odoo call replaced
\* the start-up credentials and its authentication failed
C27_Witness ==
    /\ op = "get_contact_info"
    /\ result = MsgNotConnected
    /\ connector.present /\ connector.uid = 0
    /\ connector.config # C_file
    /\ config_file = connector.config

\* C28: with no authenticated session (no connector, or a connector whose
\* authentication failed) get_contact_info returns the not-connected message
\* for every prompt, one with no identifier included, before it looks for an
\* identifier, and it sends no remote query.
C28_NotConnectedBeforeExtraction ==
    (op = "get_contact_info" /\ ~Connected(connector)) =>
        /\ outcome = "text"
        /\ result = MsgNotConnected
        /\ vat_match = NoMatch
        /\ queries = <<>>

\* a prompt with no identifier was answered 'not connected' by a server that
\* found no credentials file when it started
C28_Witness ==
    /\ op = "get_contact_info"
    /\ connector = NoConnector
    /\ config_file = NoConfig
    /\ ~re_search_vat(args.prompt).found
    /\ result = MsgNotConnected

\* C29: whenever get_contact_info sends a remote query the normalized
\* identifier is not empty, so the search term is not empty and no contact
\* whose VAT is unset is reported.  Checked under SpecUnset.
C29_QueryTermNeverEmpty ==
    (op = "get_contact_info" /\ queries # <<>>) =>
        /\ normalized_vat_prompt # <<>>
        /\ \A i \in DOMAIN queries : queries[i].term # <<>>
        /\ \A i \in DOMAIN found_partners : Truthy(Get(found_partners[i], "vat"))

----------------------------------------------------------------------------
(* Properties of list_directory, checked under SpecList.                   *)

\* the last call was list_directory on a path
Listed == op = "list_directory" /\ "directory_path" \in DOMAIN args

ListedPath == Resolve(fs, args.directory_path)

ListedRecursively == Listed /\ "recursive" \in DOMAIN args /\ args.recursive

ShowsHidden == "include_hidden" \in DOMAIN args /\ args.include_hidden

\* the call was to list the entry of this name, had it met it
Visible(name) == ShowsHidden \/ Head(name) # "."

\* the call returned a listing
ReturnedListing == outcome = "text" /\ result # <<>> /\ result[1] = "Directory: "

\* the lines of the listing, below its header
ListingLines ==
    LET k == CHOOSE i \in DOMAIN result : result[i] = "\n\n"
    IN  str_split(SubSeq(result, k + 1, Len(result)), "\n")

\* the entries of the listed directory that the call is to show
TopEntries ==
    {n \in {SortedNames[i] : i \in DOMAIN SortedNames} :
        /\ Append(ListedPath, n) \in FsPaths
        /\ fs[Append(ListedPath, n)].kind # "absent"
        /\ Visible(n)}

\* the scan of this subdirectory of the listed directory meets a permission
\* error: it may not be listed, or it may be listed and not traversed and
\* holds an entry the call is to show
Refuses(n) ==
    LET q == Append(ListedPath, n)
    IN  /\ fs[q].kind = "dir"
        /\ \/ fs[q].perm = "none"
           \/ /\ fs[q].perm = "r"
              /\ \E m \in DOMAIN fs :
                     Len(m) > 0 /\ Parent(m) = q /\ fs[m].kind # "absent"
                         /\ Visible(Last(m))

\* C23: in a recursive list_directory, a permission error met while scanning
\* a subdirectory becomes an inline 'Permission denied' line under that
\* subdirectory's line, the call returns its listing, and every entry beside
\* the subdirectory has its line in it.
C23_PermissionErrorInlineScanContinues ==
    (/\ ListedRecursively
     /\ ~Denied(fs, ListedPath)
     /\ KindOf(fs, ListedPath) = "dir"
     /\ PermOf(fs, ListedPath) \notin {"r", "none"}
     /\ \E n \in TopEntries : Refuses(n))
    => /\ ReturnedListing
       /\ LET lines == ListingLines
          IN  \A n \in TopEntries :
                  \E k \in DOMAIN lines :
                      /\ lines[k] = ItemLine(0, fs[Append(ListedPath, n)], n)
                      /\ Refuses(n) =>
                             /\ k < Len(lines)
                             /\ lines[k + 1] = <<"  ", "[x] Permission denied">>

\* the line shows an entry
IsEntry(line) == \E i \in DOMAIN line : line[i] \in {"[dir]", "[file]"}

\* how far below the listed directory the entry of a line lies: one more than
\* the number of indentation units of the line
LevelOf(line) == 1 + Cardinality({i \in DOMAIN line : line[i] = "  "})

\* the first character of the name in an entry's line
NameStartOf(line) == line[LevelOf(line) + 2]

IsDirLine(line) == IsEntry(line) /\ line[LevelOf(line)] = "[dir]"

\* C30: a recursive list_directory ends on every directory tree, one with
\* symbolic-link cycles included: a listing it returns has no entry more
\* than 11 levels below the listed directory; with include_hidden false it
\* shows no entry whose name starts with '.'; and the first entry is at level
\* 1 and an entry lies a level deeper than the line before it only when that
\* line shows a directory, so that nothing is shown from inside a directory
\* that is not listed.
C30_DepthBoundedHiddenSkipped ==
    (Listed /\ ReturnedListing) =>
        LET lines == ListingLines
        IN  \A k \in DOMAIN lines :
                IsEntry(lines[k]) =>
                    /\ LevelOf(lines[k]) <= MaxDepth + 1
                    /\ ~ShowsHidden => NameStartOf(lines[k]) # "."
                    /\ k = 1 => LevelOf(lines[k]) = 1
                    /\ k > 1 =>
                           /\ LevelOf(lines[k]) <= LevelOf(lines[k - 1]) + 1
                           /\ LevelOf(lines[k]) = LevelOf(lines[k - 1]) + 1
                                  => IsDirLine(lines[k - 1])

\* a recursive listing, hidden entries left out, of a directory that holds a
\* hidden entry and a symbolic link to itself: the listing ends at level 11
C30_Witness ==
    /\ ListedRecursively /\ ~ShowsHidden /\ ReturnedListing
    /\ ListedPath = <<N_d>>
    /\ fs[Append(ListedPath, N_f)].kind = "link"
    /\ fs[Append(ListedPath, N_h)].kind = "file"
    /\ LET lines == ListingLines
       IN  /\ \E k \in DOMAIN lines :
                  IsEntry(lines[k]) /\ LevelOf(lines[k]) = MaxDepth + 1
           /\ \A k \in DOMAIN lines :
                  IsEntry(lines[k]) => NameStartOf(lines[k]) # "."

----------------------------------------------------------------------------
(* Properties of the catalogs and routers, checked under SpecTools.        *)

\* the last call was tools/call
CalledTool == op \in ToolNames

\* the names of the catalog of the running server
Catalog == {list_tools(server)[i] : i \in DOMAIN list_tools(server)}

\* the last call ended in the else branch of the router
UnknownToolAnswer ==
    IF server = "unified"
    THEN /\ outcome = "raised"
         /\ exc = "ERROR: The tool '" \o op \o "' is not recognized by the server."
    ELSE /\ outcome = "text"
         /\ result = <<"Error:", " ", "Unknown tool: " \o op>>

\* C24: on each server the catalog and the router agree: tools/list returns
\* 13 distinct names on the unified server and 11 on the standalone one; a
\* call of a name of the catalog reaches its handler and never the
\* unknown-tool branch; and a call that does not end in the unknown-tool
\* branch is a call of a name of the catalog.
C24_CatalogMatchesDispatcher ==
    /\ op = "list_tools" =>
           /\ Len(result) = IF server = "unified" THEN 13 ELSE 11
           /\ Cardinality({result[i] : i \in DOMAIN result}) = Len(result)
    /\ CalledTool => (op \in Catalog <=> ~UnknownToolAnswer)
    /\ (CalledTool /\ op \in Catalog) =>
           \E i \in DOMAIN Branches(server) :
               /\ Branches(server)[i].name = op
               /\ IF server = "unified"
                  THEN outcome = "raised" /\ exc = KeyError(Branches(server)[i].key)
                  ELSE result = <<"Error:", " ", KeyError(Branches(server)[i].key)>>

\* the catalog was listed, and then its last name was called and reached its
\* handler
C24_Witness ==
    /\ prev.op = "list_tools"
    /\ prev.result # <<>>
    /\ op = prev.result[Len(prev.result)]
    /\ ~UnknownToolAnswer

----------------------------------------------------------------------------
(* Properties of calls in flight together, checked under SpecRace.         *)

\* thread t ran get_contact_info to its end, past the connected check and
\* past the extraction of an identifier
LookupDone(t) ==
    /\ threads[t].pc = "g_done"
    /\ Connected(threads[t].seen)
    /\ threads[t].call.vat_match.found

\* C25: under any interleaving with configure_odoo calls, a get_contact_info
\* call that passed the connected check sends its remote query through the
\* connector the check saw, which has a session identifier, and does not end
\* with the not-authenticated error.
C25_QueryThroughCheckedConnector ==
    \A t \in Threads :
        LookupDone(t) =>
            /\ threads[t].used = threads[t].seen
            /\ Connected(threads[t].used)
            /\ threads[t].call.queries # <<>>
            /\ threads[t].call.result # MsgQueryError(E_not_authenticated)

\* no configure_odoo call is in flight
NoConfigureInFlight ==
    \A t \in Threads : threads[t].call.op # "configure_odoo"

\* the four credentials of a configuration
Credentials(c) == [k \in CredentialKeys |-> c[k]]

\* thread t ran a configure_odoo call of four segments to its end
ConfigureDone(t) ==
    /\ threads[t].pc = "c_done"
    /\ threads[t].config # NoConfig

\* C26: one credentials set is live. Whenever no configure_odoo call is in
\* flight, the credentials the live connector holds are those in the
\* credentials file; and the status a configure_odoo call of four segments
\* reports is the outcome of authenticating with the credentials that call
\* was given.
C26_OneCredentialsSetLive ==
    /\ (NoConfigureInFlight /\ connector.present) =>
           /\ config_file.present
           /\ config_file # Truncated
           /\ Credentials(connector.config) = Credentials(config_file)
    /\ \A t \in Threads :
           ConfigureDone(t) =>
               /\ threads[t].call.auths = <<threads[t].config>>
               /\ threads[t].call.result = MsgConfigured(threads[t].made.uid)

----------------------------------------------------------------------------
(* Properties of normalize_vat, checked under SpecNorm.                    *)

\* C8: normalize_vat is idempotent, and an empty or absent input yields the
\* empty string.
C8_Idempotent ==
    /\ nv_pc = "twice" => nv_twice = nv_out
    /\ (nv_pc # "in" /\ ~Truthy(nv_in)) => nv_out = <<>>

\* normalization changed the input and left something to normalize again
C8_Witness ==
    /\ nv_pc = "twice"
    /\ nv_out # <<>>
    /\ nv_in.s # nv_out
    /\ nv_twice = nv_out

\* the ASCII letters and digits of s, in order, upper-cased
AsciiAlnumUpper(s) ==
    LET kept == SelectSeq(s, LAMBDA c : c \in LowerSet \/ c \in UpperSet \/ c \in Digits)
    IN  [i \in DOMAIN kept |->
            IF kept[i] \in LowerSet THEN Uppers[IndexIn(kept[i], Lowers)] ELSE kept[i]]

\* C9: normalize_vat is case- and punctuation-insensitive: the result is the
\* sequence of the input's ASCII letters and digits in order, upper-cased, so
\* that inputs differing only in case and in other characters agree.
C9_CaseAndPunctuationInsensitive ==
    nv_pc # "in" =>
        /\ nv_out = AsciiAlnumUpper(nv_in.s)
        /\ \A other \in VatInputs :
               AsciiAlnumUpper(other.s) = AsciiAlnumUpper(nv_in.s)
                   => normalize_vat(other) = nv_out

=============================================================================
